---- MODULE Spec2Model ----
(***************************************************************************)
(* Discrete-event model of the seaport simulator (src/port_model.py).      *)
(*                                                                         *)
(* The program runs on SimPy: a heap of events ordered by (time, priority, *)
(* event id); one step pops the first event, sets the clock to its time    *)
(* and runs its callbacks (resource triggers first, then the process that  *)
(* yielded the event, up to its next yield).  Each action below is one     *)
(* such step.  Times are the program's floats (IEEE-754 binary64, computed *)
(* bit for bit); cargo and capacities are whole numbers of tons, unloading *)
(* speeds tons per hour.                                                   *)
(***************************************************************************)
EXTENDS Integers, Sequences, FiniteSets, TLC

VARIABLES
    config,            \* the configuration dict passed to run_simulation
    simulation_hours,  \* the horizon passed to run_simulation
    now,               \* env.now
    queue,             \* env._queue: the scheduled events
    eid,               \* env._eid: the next event id
    res,               \* port.oil_berths / dry_berths / cranes / railway
    storage,           \* port.grain_storage / general_storage / oil_storage
    metrics,           \* the PortMetrics of the run
    ship,              \* the ship_process instances: locals and position
    gen,               \* the ship_generator process: locals and position
    rail,              \* the railway_unload_process: locals and position
    run_state,         \* "running" inside env.run, "finished" once it returned,
                       \* "reported" once main has stored the report of the run
    returned,          \* the metrics returned by the finished run_simulation calls
    rng,               \* np.random's global generator: position and the values drawn so far
    log,               \* history: cumulative deposits / withdrawals, request and grant order
    report,            \* the CapacityReport of calculate_capacity_metrics, once computed
    collapse,          \* find_collapse_point: its locals and position
    scenarios,         \* run_stress_scenarios: its locals and position
    base_config        \* the configuration dict main holds and passes to its callees

vars == <<config, simulation_hours, now, queue, eid, res, storage, metrics,
          ship, gen, rail, run_state, returned, rng, log, report, collapse,
          scenarios, base_config>>

-----------------------------------------------------------------------------
(* Bounds of the model *)

\* the ships of a run: the gap drawn after the last of them reaches the
\* horizon
MaxShips == 3
\* simulation_hours of the checked runs; a run without horizon is followed
\* for as many hours
Horizon == 16
\* consecutive runs of one process, and their simulation_hours
MaxRuns == 2
RunsHorizon == 5
\* the run of a fleet: enough ships for two utilization snapshots
FleetShips == 11
FleetHorizon == 20
\* the ships of a run of the load ladder or of the stress battery
LadderShips == 9

-----------------------------------------------------------------------------
(* Program constants *)

URGENT == 0
NORMAL == 1
PollDelay == 1
TrainLoadingTime == 2
SnapshotEvery == 10
\* "speeds.get(cargo_type, 20)": the speed of a cargo type that is not listed, t/h
DefaultSpeed == 20
HoursPerDay == 24
HoursPerYear == 8760
DaysPerYear == 365
\* "avg_processing_time if avg_processing_time > 0 else 24"
DefaultShipTime == 24
\* "... if metrics.ships_processed > 0 else 5000"
DefaultShipCargo == 5000
\* "total_storage_capacity * 24": 24 turnovers a year
StorageTurnovers == 24
\* "max_queue > 5", "avg_wait_time > 72", "avg_storage_usage > 95"
CriticalQueue == 5
CriticalWait == 72
CriticalStorage == 95
\* "capacity_utilization > 80", "capacity_utilization > 60"
CriticalUtilization == 80
ModerateUtilization == 60

CargoTypes == {"grain", "oil", "general"}
Resources == {"oil_berths", "dry_berths", "cranes", "railway"}
Pools == {"grain_storage", "general_storage", "oil_storage"}
\* the resources ships compete for: their request and grant order is logged
LoggedResources == {"oil_berths", "dry_berths", "cranes"}

NoTarget == "-"
GenProc == <<"gen", 0>>
RailProc == <<"rail", 0>>
ShipProc(s) == <<"ship", s>>

-----------------------------------------------------------------------------
(* Configurations and inputs of the checked runs *)

\* Two berths for tankers, one dry berth, one crane; small pools, so that
\* ships queue for the dry berth and two deposits can compete for a pool.
ConfigA ==
    [oil_berths |-> 2, dry_berths |-> 1, cranes |-> 1,
     grain_speed |-> 3000, oil_speed |-> 5000, general_speed |-> 1000,
     grain_storage_capacity |-> 5000, general_storage_capacity |-> 4000,
     oil_storage_capacity |-> 8000,
     trains_per_day |-> 12, train_capacity |-> 2000, railway_capacity |-> 2,
     ships_per_year |-> 714,
     cargo_distribution |-> [grain |-> 32, oil |-> 35, general |-> 33]]

\* One tanker berth, three dry berths sharing one crane.
ConfigB ==
    [ConfigA EXCEPT !.oil_berths = 1, !.dry_berths = 3,
                    !.cargo_distribution = [grain |-> 50, oil |-> 0, general |-> 50]]

Configurations == {ConfigA, ConfigB}

\* The port of ConfigA receiving grain ships only: the configuration of the
\* consecutive runs.
ConfigRuns ==
    [ConfigA EXCEPT !.cargo_distribution = [grain |-> 100, oil |-> 0, general |-> 0]]

\* A grain port: one dry berth and one crane, a store of two shiploads and a
\* half, a train every hour that takes a full store.
ConfigFleet ==
    [ConfigA EXCEPT !.grain_storage_capacity = 8000, !.trains_per_day = 24,
                    !.train_capacity = 5000,
                    !.cargo_distribution = [grain |-> 100, oil |-> 0, general |-> 0]]

\* np.random.uniform(3000, 8000) / (5000, 15000) / (1000, 5000): whole tons
CargoAmounts(cargo_type) ==
    CASE cargo_type = "grain" -> {3000}
      [] cargo_type = "oil" -> {5000}
      [] OTHER -> {1000, 3000}

\* np.random.exponential(inter_arrival_time), in hours: the next ship comes
\* at once, two hours later, or a day later
InterArrivals == {0, 2, 24}

-----------------------------------------------------------------------------
(* Port: routing by cargo type *)

get_berth(cargo_type) ==
    IF cargo_type = "oil" THEN "oil_berths" ELSE "dry_berths"

\* a lookup that sends every dry cargo to the grain terminal
DryCargoToGrainTerminal(cargo_type) ==
    IF cargo_type = "oil" THEN "oil_storage" ELSE "grain_storage"

get_storage(cargo_type) ==
    IF cargo_type = "grain" THEN "grain_storage"
    ELSE IF cargo_type = "oil" THEN "oil_storage"
    ELSE "general_storage"

\* a port where every ship, tankers included, is unloaded by a crane
CraneForEveryShip(cargo_type) == TRUE

\* "if cargo_type != 'oil'": dry cargo needs a crane, oil is pumped
NeedsCrane(cargo_type) == cargo_type # "oil"

get_unloading_speed(cfg, cargo_type) ==
    CASE cargo_type = "grain" -> cfg.grain_speed
      [] cargo_type = "oil" -> cfg.oil_speed
      [] cargo_type = "general" -> cfg.general_speed
      [] OTHER -> DefaultSpeed

\* capacity= of the simpy.Resource objects built by Port.__init__
ResourceCapacity(cfg, r) ==
    CASE r = "oil_berths" -> cfg.oil_berths
      [] r = "dry_berths" -> cfg.dry_berths
      [] r = "cranes" -> cfg.cranes
      [] r = "railway" -> cfg.railway_capacity

\* capacity= of the simpy.Container objects built by Port.__init__
StorageCapacity(cfg, p) ==
    CASE p = "grain_storage" -> cfg.grain_storage_capacity
      [] p = "general_storage" -> cfg.general_storage_capacity
      [] p = "oil_storage" -> cfg.oil_storage_capacity

total_storage_capacity(cfg) ==
    cfg.grain_storage_capacity + cfg.general_storage_capacity
        + cfg.oil_storage_capacity

-----------------------------------------------------------------------------
(* Arithmetic of the program's floats                                      *)

(* Natural numbers of any size: sequences of limbs, least significant limb  *)
(* first, no limb of zero at the upper end; zero is the empty sequence.      *)

RECURSIVE LimbLen(_)
\* the number of bits of n
LimbLen(n) == IF n = 0 THEN 0 ELSE 1 + LimbLen(n \div 2)

LimbBase == 2^15
LimbBits == LimbLen(LimbBase) - 1


RECURSIVE BigTrim(_)
BigTrim(a) ==
    IF a = <<>> THEN <<>>
    ELSE IF a[Len(a)] = 0 THEN BigTrim(SubSeq(a, 1, Len(a) - 1))
    ELSE a

BigOf(n) ==
    BigTrim(<<n % LimbBase, (n \div LimbBase) % LimbBase,
              n \div (LimbBase * LimbBase)>>)

Limb(a, i) == IF i <= Len(a) THEN a[i] ELSE 0

RECURSIVE BigAddFrom(_, _, _, _)
BigAddFrom(a, b, i, carry) ==
    IF i > Len(a) /\ i > Len(b)
    THEN IF carry = 0 THEN <<>> ELSE <<carry>>
    ELSE LET s == Limb(a, i) + Limb(b, i) + carry
         IN <<s % LimbBase>> \o BigAddFrom(a, b, i + 1, s \div LimbBase)

BigAdd(a, b) == BigAddFrom(a, b, 1, 0)

RECURSIVE BigSubFrom(_, _, _, _)
BigSubFrom(a, b, i, borrow) ==
    IF i > Len(a) THEN <<>>
    ELSE LET s == a[i] - Limb(b, i) - borrow
         IN IF s < 0 THEN <<s + LimbBase>> \o BigSubFrom(a, b, i + 1, 1)
            ELSE <<s>> \o BigSubFrom(a, b, i + 1, 0)

\* a - b, for a >= b
BigSub(a, b) == BigTrim(BigSubFrom(a, b, 1, 0))

RECURSIVE BigLessFrom(_, _, _)
BigLessFrom(a, b, i) ==
    IF i = 0 THEN FALSE
    ELSE IF a[i] # b[i] THEN a[i] < b[i]
    ELSE BigLessFrom(a, b, i - 1)

\* a < b
BigLess(a, b) ==
    IF Len(a) # Len(b) THEN Len(a) < Len(b) ELSE BigLessFrom(a, b, Len(a))

RECURSIVE BigTimesLimb(_, _, _, _)
BigTimesLimb(a, k, i, carry) ==
    IF i > Len(a) THEN IF carry = 0 THEN <<>> ELSE <<carry>>
    ELSE LET p == a[i] * k + carry
         IN <<p % LimbBase>> \o BigTimesLimb(a, k, i + 1, p \div LimbBase)

\* a * k, for a limb k
BigMulSmall(a, k) == IF k = 0 THEN <<>> ELSE BigTimesLimb(a, k, 1, 0)

Zeros(n) == [i \in 1..n |-> 0]

RECURSIVE BigMulFrom(_, _, _)
BigMulFrom(a, b, j) ==
    IF j > Len(b) THEN <<>>
    ELSE BigAdd(IF b[j] = 0 THEN <<>> ELSE Zeros(j - 1) \o BigMulSmall(a, b[j]),
                BigMulFrom(a, b, j + 1))

BigMul(a, b) == IF a = <<>> \/ b = <<>> THEN <<>> ELSE BigMulFrom(a, b, 1)

\* a * 2^k
BigShl(a, k) ==
    IF a = <<>> THEN <<>>
    ELSE Zeros(k \div LimbBits) \o BigMulSmall(a, 2^(k % LimbBits))

RECURSIVE BigDivLimb(_, _, _, _)
\* the limbs of a from the i-th down, divided by the limb d, r carried in:
\* the quotient's limbs, least significant first, and the remainder
BigDivLimb(a, d, i, r) ==
    IF i = 0 THEN [q |-> <<>>, r |-> r]
    ELSE LET n == r * LimbBase + a[i]
             rest == BigDivLimb(a, d, i - 1, n % d)
         IN [q |-> Append(rest.q, n \div d), r |-> rest.r]

\* a divided by a limb d > 0: quotient and remainder
BigDivSmall(a, d) ==
    LET x == BigDivLimb(a, d, Len(a), 0) IN [q |-> BigTrim(x.q), r |-> x.r]

\* floor(a / 2^k)
BigShr(a, k) ==
    IF k \div LimbBits >= Len(a) THEN <<>>
    ELSE BigDivSmall(SubSeq(a, k \div LimbBits + 1, Len(a)), 2^(k % LimbBits)).q

\* the number of bits of a
BitLen(a) == IF a = <<>> THEN 0 ELSE LimbBits * (Len(a) - 1) + LimbLen(a[Len(a)])

\* bit i of a, bit 0 being the lowest
BigBit(a, i) == (Limb(a, i \div LimbBits + 1) \div 2^(i % LimbBits)) % 2

\* some bit of a below bit k is set
BigLowBits(a, k) ==
    \/ \E i \in 1..Len(a) : i <= k \div LimbBits /\ a[i] # 0
    \/ Limb(a, k \div LimbBits + 1) % 2^(k % LimbBits) # 0

RECURSIVE LimbZeros(_)
LimbZeros(n) == IF n % 2 = 1 THEN 0 ELSE 1 + LimbZeros(n \div 2)

RECURSIVE BigZerosFrom(_, _)
BigZerosFrom(a, i) ==
    IF a[i] = 0 THEN LimbBits + BigZerosFrom(a, i + 1) ELSE LimbZeros(a[i])

\* the number of zero bits at the lower end of a > 0
BigZeros(a) == BigZerosFrom(a, 1)

RECURSIVE QuotientLimb(_, _, _)
\* k bits of the quotient r / b for r < 2 * b, the bit of 2^0 first, as one
\* limb, and what is left of r, doubled k times
QuotientLimb(r, b, k) ==
    IF k = 0 THEN [q |-> 0, r |-> r]
    ELSE LET bit == IF BigLess(r, b) THEN 0 ELSE 1
             rest == QuotientLimb(BigMulSmall(IF bit = 1 THEN BigSub(r, b) ELSE r, 2),
                                  b, k - 1)
         IN [q |-> bit * 2^(k - 1) + rest.q, r |-> rest.r]

RECURSIVE BigDivLimbs(_, _, _)
\* j limbs of the quotient r / b for r < 2 * b, and whether a remainder is left
BigDivLimbs(r, b, j) ==
    IF j = 0 THEN [q |-> <<>>, rest |-> r # <<>>]
    ELSE LET x == QuotientLimb(r, b, LimbBits)
             y == BigDivLimbs(x.r, b, j - 1)
         IN [q |-> Append(y.q, x.q), rest |-> y.rest]

-----------------------------------------------------------------------------
(* IEEE 754 binary64, the float of Python: a finite number that is not      *)
(* negative is zero or m * 2^(e - 52) with 2^52 <= m < 2^53.  Every          *)
(* operation gives the float nearest to the exact result, the one with the  *)
(* even mantissa when two are as near.                                        *)

\* 52 bits of the mantissa are stored, the first is implied
MantissaBits == 52 + 1

Zero == [e |-> 0, m |-> <<>>]

\* the float nearest to n * 2^x, or to a number just above it (sticky)
Rounded(n, x, sticky) ==
    IF n = <<>> THEN Zero
    ELSE LET len == BitLen(n)
             cut == len - MantissaBits
         IN IF cut <= 0
            THEN [e |-> x + len - 1, m |-> BigShl(n, 0 - cut)]
            ELSE LET kept == BigShr(n, cut)
                     half == BigBit(n, cut - 1) = 1
                     more == sticky \/ BigLowBits(n, cut - 1)
                     up == half /\ (more \/ kept[1] % 2 = 1)
                     m == IF up THEN BigAdd(kept, <<1>>) ELSE kept
                 IN IF BitLen(m) > MantissaBits
                    THEN [e |-> x + len, m |-> BigShr(m, 1)]
                    ELSE [e |-> x + len - 1, m |-> m]

\* the same, the number being computed once
Nearest(n, x, sticky) == CHOOSE r \in {Rounded(k, x, sticky) : k \in {n}} : TRUE

\* float(n) of an integer n >= 0
Whole(n) == Nearest(BigOf(n), 0, FALSE)

\* float(a * b) of the integers a >= 0 and b >= 0
WholeTimes(a, b) == Nearest(BigMul(BigOf(a), BigOf(b)), 0, FALSE)

\* what a division by zero leaves in the place of a float: the program raises
\* ZeroDivisionError
Undefined == [e |-> 0, m |-> <<0>>]

IsDefined(a) == a # Undefined

\* the power of two a mantissa is counted in
Scale(a) == a.e - (MantissaBits - 1)

\* x < y, for two floats at hand
Less(x, y) ==
    IF x = Undefined \/ y = Undefined THEN FALSE
    ELSE IF y.m = <<>> THEN FALSE
    ELSE IF x.m = <<>> THEN TRUE
    ELSE IF x.e # y.e THEN x.e < y.e
    ELSE BigLessFrom(x.m, y.m, Len(x.m))

\* The operations below compute each operand once and then work on its
\* value: x is the value of a, y the value of b.

\* a < b
FLess(a, b) == \E x \in {a}, y \in {b} : Less(x, y)

FLeq(a, b) == ~FLess(b, a)

\* a > b
FGreater(a, b) == FLess(b, a)

\* the bits an exact result is computed to before it is rounded: beyond this
\* gap of exponents the smaller operand of a sum does not count
GuardBits == 4 * LimbBits

\* a + b
FAdd(a, b) ==
    CHOOSE sum \in
        {IF x = Undefined \/ y = Undefined THEN Undefined
         ELSE IF x.m = <<>> THEN y
         ELSE IF y.m = <<>> THEN x
         ELSE LET hi == IF x.e >= y.e THEN x ELSE y
                  lo == IF x.e >= y.e THEN y ELSE x
              IN IF hi.e - lo.e > GuardBits THEN hi
                 ELSE Nearest(BigAdd(BigShl(hi.m, hi.e - lo.e), lo.m), Scale(lo), FALSE) :
            x \in {a}, y \in {b}} : TRUE

\* a - b, for a >= b
FSub(a, b) ==
    CHOOSE difference \in
        {IF x = Undefined \/ y = Undefined THEN Undefined
         ELSE IF y.m = <<>> THEN x
         ELSE IF x.e - y.e > GuardBits THEN x
         ELSE Nearest(BigSub(BigShl(x.m, x.e - y.e), y.m), Scale(y), FALSE) :
            x \in {a}, y \in {b}} : TRUE

\* a * b
FMul(a, b) ==
    CHOOSE product \in
        {IF x = Undefined \/ y = Undefined THEN Undefined
         ELSE IF x.m = <<>> \/ y.m = <<>> THEN Zero
         ELSE Nearest(BigMul(x.m, y.m), Scale(x) + Scale(y), FALSE) :
            x \in {a}, y \in {b}} : TRUE

\* a / b
FDiv(a, b) ==
    CHOOSE quotient \in
        {IF x = Undefined \/ y = Undefined \/ y.m = <<>> THEN Undefined
         ELSE IF x.m = <<>> THEN Zero
         ELSE \* a divisor that is one limb times a power of two is divided by
              \* at once, any other limb by limb
              CHOOSE r \in
                  {IF Len(odd) = 1
                   THEN CHOOSE s \in
                            {Nearest(d.q, Scale(x) - Scale(y) - zeros - GuardBits,
                                     d.r # 0) :
                                d \in {BigDivSmall(BigShl(x.m, GuardBits), odd[1])}} : TRUE
                   ELSE CHOOSE s \in
                            {Nearest(d.q, Scale(x) - Scale(y) - (GuardBits - 1), d.rest) :
                                d \in {BigDivLimbs(x.m, y.m, GuardBits \div LimbBits)}} : TRUE :
                      zeros \in {BigZeros(y.m)}, odd \in {BigShr(y.m, BigZeros(y.m))}} : TRUE :
            x \in {a}, y \in {b}} : TRUE

\* int(a): the whole part of a
FInt(a) ==
    CHOOSE whole \in
        {IF x.m = <<>> \/ x.e < 0 THEN 0
         ELSE CHOOSE n \in
                  {Limb(w, 1) + LimbBase * Limb(w, 2) + LimbBase * LimbBase * Limb(w, 3) :
                      w \in {BigShr(x.m, MantissaBits - 1 - x.e)}} : TRUE :
            x \in {a}} : TRUE

-----------------------------------------------------------------------------
(* The event heap *)

\* Heap order of env._queue: (time, priority, event id).

\* the earliest of the times T
MinTime(T) == CHOOSE t \in T : \A u \in T : ~Less(u, t)

\* of the events D, due at the same time, the first by priority and event id
FirstOf(D) ==
    CHOOSE e \in D : \A f \in D : e.prio < f.prio \/ (e.prio = f.prio /\ e.eid <= f.eid)

\* the event heappop yields: the first of those due at the earliest time
NextEvent ==
    CHOOSE first \in
        {FirstOf(D) : D \in {{e \in queue : e.t = t} :
                                t \in {MinTime(T) : T \in {{e.t : e \in queue}}}}} : TRUE

Stub(t, prio, kind, proc, tgt) ==
    [t |-> t, prio |-> prio, kind |-> kind, proc |-> proc, tgt |-> tgt]

\* env.schedule, once per stub, in order: each takes the next event id
ScheduleAll(Q, id, stubs) ==
    Q \cup {[t |-> stubs[i].t, prio |-> stubs[i].prio, eid |-> id + i - 1,
             kind |-> stubs[i].kind, proc |-> stubs[i].proc, tgt |-> stubs[i].tgt]
            : i \in 1..Len(stubs)}

\* event.succeed() of a granted request / put / get: scheduled now, NORMAL
Succeed(t, kind, procs, tgt) ==
    [i \in 1..Len(procs) |-> Stub(t, NORMAL, kind, procs[i], tgt)]

\* env.timeout(delay): the event is due at env.now + delay
Timeout(t, delay, proc) == <<Stub(FAdd(t, delay), NORMAL, "timeout", proc, NoTarget)>>

-----------------------------------------------------------------------------
(* simpy.Resource: users and the FIFO put_queue *)

\* a Resource that serves the newest request first
GrantNewestFirst(R, capacity) ==
    IF R.put_queue # <<>> /\ Len(R.users) < capacity
    THEN [r |-> [users |-> Append(R.users, R.put_queue[Len(R.put_queue)]),
                 put_queue |-> SubSeq(R.put_queue, 1, Len(R.put_queue) - 1)],
          granted |-> <<R.put_queue[Len(R.put_queue)]>>]
    ELSE [r |-> R, granted |-> <<>>]

\* a Resource that grants the head of the queue whether or not a slot is free
GrantWithoutCapacityCheck(R, capacity) ==
    IF R.put_queue # <<>>
    THEN [r |-> [users |-> Append(R.users, Head(R.put_queue)),
                 put_queue |-> Tail(R.put_queue)],
          granted |-> <<Head(R.put_queue)>>]
    ELSE [r |-> R, granted |-> <<>>]

\* Resource._trigger_put: only the head of put_queue is tried (_do_put returns None)
TriggerPutResource(R, capacity) ==
    IF R.put_queue # <<>> /\ Len(R.users) < capacity
    THEN [r |-> [users |-> Append(R.users, Head(R.put_queue)),
                 put_queue |-> Tail(R.put_queue)],
          granted |-> <<Head(R.put_queue)>>]
    ELSE [r |-> R, granted |-> <<>>]

\* resource.request(): the request joins put_queue, then _trigger_put
Request(R, capacity, proc) ==
    TriggerPutResource([R EXCEPT !.put_queue = Append(@, proc)], capacity)

\* resource.release(request): the user leaves at once (Resource._do_get)
Release(R, proc) ==
    [R EXCEPT !.users = SelectSeq(@, LAMBDA u : u # proc)]

-----------------------------------------------------------------------------
(* simpy.Container: level and the FIFO put_queue / get_queue *)

RECURSIVE TriggerPutContainer(_, _)
\* Container._trigger_put: heads are served while they fit; the first that does not stops the loop
TriggerPutContainer(S, capacity) ==
    IF S.put_queue = <<>> THEN [s |-> S, granted |-> <<>>]
    ELSE LET h == Head(S.put_queue) IN
         IF capacity - S.level >= h.amount
         THEN LET rest == TriggerPutContainer(
                              [S EXCEPT !.level = @ + h.amount,
                                        !.put_queue = Tail(@)], capacity)
              IN [s |-> rest.s, granted |-> <<h>> \o rest.granted]
         ELSE [s |-> S, granted |-> <<>>]

RECURSIVE TriggerGetContainer(_)
\* Container._trigger_get: heads are served while the level covers them
TriggerGetContainer(S) ==
    IF S.get_queue = <<>> THEN [s |-> S, granted |-> <<>>]
    ELSE LET h == Head(S.get_queue) IN
         IF S.level >= h.amount
         THEN LET rest == TriggerGetContainer(
                              [S EXCEPT !.level = @ - h.amount,
                                        !.get_queue = Tail(@)])
              IN [s |-> rest.s, granted |-> <<h>> \o rest.granted]
         ELSE [s |-> S, granted |-> <<>>]

\* a deposit of what fits: the part of the cargo above the headroom is lost
PutWhatFits(S, capacity, proc, amount) ==
    LET fits == IF amount <= capacity - S.level THEN amount ELSE capacity - S.level
    IN [s |-> [S EXCEPT !.level = @ + fits],
        granted |-> <<[proc |-> proc, amount |-> fits]>>]

\* a deposit that never waits for headroom
PutWithoutBlocking(S, capacity, proc, amount) ==
    [s |-> [S EXCEPT !.level = @ + amount],
     granted |-> <<[proc |-> proc, amount |-> amount]>>]

\* container.put(amount)
Put(S, capacity, proc, amount) ==
    TriggerPutContainer(
        [S EXCEPT !.put_queue = Append(@, [proc |-> proc, amount |-> amount])],
        capacity)

\* container.get(amount)
Get(S, proc, amount) ==
    TriggerGetContainer(
        [S EXCEPT !.get_queue = Append(@, [proc |-> proc, amount |-> amount])])

Procs(granted) == [i \in 1..Len(granted) |-> granted[i].proc]

RECURSIVE SumAmounts(_)
SumAmounts(granted) ==
    IF granted = <<>> THEN 0 ELSE Head(granted).amount + SumAmounts(Tail(granted))

-----------------------------------------------------------------------------
(* run_simulation: the state it builds before env.run *)

EnvProc == <<"env", 0>>

\* simulation_hours of a run without horizon: env.run() with no until
Unbounded == -1

\* PortMetrics.__init__
NewMetrics ==
    [ships_processed |-> 0, ships_in_queue |-> <<>>, berth_usage |-> <<>>,
     crane_usage |-> <<>>, storage_usage |-> <<>>, ship_waiting_times |-> <<>>,
     ship_processing_times |-> <<>>, cargo_processed |-> <<>>]

\* the simpy.Resource objects of Port.__init__
NewResources == [r \in Resources |-> [users |-> <<>>, put_queue |-> <<>>]]

\* the simpy.Container objects of Port.__init__ (init=0)
NewStorage ==
    [p \in Pools |-> [level |-> 0, put_queue |-> <<>>, get_queue |-> <<>>]]

NewLog ==
    [deposited |-> [p \in Pools |-> 0], railed |-> [p \in Pools |-> 0],
     requested |-> [r \in LoggedResources |-> <<>>],
     granted |-> [r \in LoggedResources |-> <<>>],
     firings |-> <<>>, berthed_at |-> <<>>]

\* env.process(ship_generator), env.process(railway_unload_process), then
\* env.run(until=simulation_hours) schedules the stop event
InitialEvents(hours) ==
    <<Stub(Zero, URGENT, "init", GenProc, NoTarget),
      Stub(Zero, URGENT, "init", RailProc, NoTarget)>>
    \o (IF hours = Unbounded THEN <<>>
        ELSE <<Stub(Whole(hours), URGENT, "until", EnvProc, NoTarget)>>)

\* the state run_simulation builds: a new Environment, PortMetrics and Port,
\* the two processes and the stop event
run_simulation(hours) ==
    [now |-> Zero,
     queue |-> ScheduleAll({}, 0, InitialEvents(hours)),
     eid |-> Len(InitialEvents(hours)),
     res |-> NewResources,
     storage |-> NewStorage,
     metrics |-> NewMetrics,
     ship |-> <<>>,
     gen |-> [pc |-> "init", ship_id |-> 0],
     rail |-> [pc |-> "init", amount |-> 0, take |-> 0],
     log |-> NewLog]

\* calculate_capacity_metrics has not been called
NoReport == [computed |-> FALSE]

\* find_collapse_point has not been called
NoSearch == [pc |-> "idle"]

\* run_stress_scenarios has not been called
NoBattery == [pc |-> "idle"]

\* the interpreter starts: nothing has been drawn from np.random yet
NewGenerator == [pos |-> 0, stream |-> <<>>]

\* run_simulation(cfg, hours) has entered env.run; np.random is in a state
\* that yields the draws of stream first
InitRunDrawing(cfg, hours, stream) ==
    /\ config = cfg
    /\ simulation_hours = hours
    /\ now = run_simulation(hours).now
    /\ queue = run_simulation(hours).queue
    /\ eid = run_simulation(hours).eid
    /\ res = run_simulation(hours).res
    /\ storage = run_simulation(hours).storage
    /\ metrics = run_simulation(hours).metrics
    /\ ship = run_simulation(hours).ship
    /\ gen = run_simulation(hours).gen
    /\ rail = run_simulation(hours).rail
    /\ log = run_simulation(hours).log
    /\ run_state = "running"
    /\ returned = <<>>
    /\ rng = [pos |-> 0, stream |-> stream]
    /\ report = NoReport
    /\ collapse = NoSearch
    /\ scenarios = NoBattery
    /\ base_config = config

InitRun(cfg, hours) == InitRunDrawing(cfg, hours, NewGenerator.stream)

Init == \E cfg \in Configurations : InitRun(cfg, Horizon)

-----------------------------------------------------------------------------
(* One step of env.run: pop the first event, advance the clock *)

\* simpy.Resource(env, capacity=...) and simpy.Container(env, capacity=...)
\* raise ValueError for a capacity that is not positive
ConstructorRaises(cfg) ==
    \/ \E r \in Resources : ResourceCapacity(cfg, r) <= 0
    \/ \E p \in Pools : StorageCapacity(cfg, p) <= 0

\* env.run(until=simulation_hours) raises ValueError for a horizon that is not
\* after the current time
HorizonRaises(hours) == hours # Unbounded /\ hours <= 0

\* np.random.choice(..., p=[...]) raises ValueError unless the probabilities
\* are non-negative and sum to 1
ChoiceRaises(cfg) ==
    \/ \E ct \in CargoTypes : cfg.cargo_distribution[ct] < 0
    \/ cfg.cargo_distribution["grain"] + cfg.cargo_distribution["oil"]
          + cfg.cargo_distribution["general"] # 100

\* the generator's first pass: "8760 / ships_per_year" raises
\* ZeroDivisionError, then np.random.choice may raise
GeneratorRaises(cfg) == cfg.ships_per_year = 0 \/ ChoiceRaises(cfg)

\* the resumed process is the ship s at "while storage.level + cargo_amount >
\* storage.capacity": after the grant of the crane, after the grant of the
\* berth to a tanker, or after an hour of waiting
AtStorageCheck(s) ==
    /\ NextEvent.proc = ShipProc(s)
    /\ \/ /\ NextEvent.kind = "request"
          /\ NextEvent.tgt = "cranes"
          /\ ship[s].pc = "wait_crane"
       \/ /\ NextEvent.kind = "request"
          /\ NextEvent.tgt = get_berth(ship[s].cargo_type)
          /\ ship[s].pc = "wait_berth"
          /\ ~NeedsCrane(ship[s].cargo_type)
       \/ /\ NextEvent.kind = "timeout"
          /\ ship[s].pc = "poll"

\* "unloading_time = cargo_amount / unloading_speed" raises ZeroDivisionError
UnloadingRaises(s) ==
    /\ AtStorageCheck(s)
    /\ storage[get_storage(ship[s].cargo_type)].level + ship[s].cargo_amount
          <= StorageCapacity(config, get_storage(ship[s].cargo_type))
    /\ get_unloading_speed(config, ship[s].cargo_type) = 0

\* the process resumed by the first event raises: the generator at its first
\* pass, the rail process at "24 / trains_per_day" (ZeroDivisionError) or at a
\* get of an amount that is not positive (ValueError of simpy), a ship at
\* the division by its unloading speed
Raises ==
    \/ /\ NextEvent.kind = "init"
       /\ NextEvent.proc = GenProc
       /\ GeneratorRaises(config)
    \/ /\ NextEvent.kind = "init"
       /\ NextEvent.proc = RailProc
       /\ config.trains_per_day = 0
    \/ /\ NextEvent.kind = "request"
       /\ NextEvent.proc = RailProc
       /\ config.train_capacity <= 0
    \/ \E s \in DOMAIN ship : UnloadingRaises(s)

Ready(kind, proc) ==
    /\ run_state = "running"
    /\ queue # {}
    /\ \E first \in {NextEvent} :
          /\ first.kind = kind
          /\ first.proc = proc
          /\ simulation_hours = Unbounded => FLeq(first.t, Whole(Horizon))
    /\ ~Raises

\* the popped event leaves the heap and the clock is set to its time; the
\* stubs scheduled by the callbacks join the heap; newShip is the ship
\* processes after the callbacks
Advance(stubs, newShip) ==
    \E first \in {NextEvent}, scheduled \in {stubs} :
        /\ now' = first.t
        /\ queue' = ScheduleAll(queue \ {first}, eid, scheduled)
        /\ eid' = eid + Len(scheduled)
        /\ ship' = newShip

Ships == DOMAIN ship

\* the ship process that the first event resumes, if it resumes one
Resumed ==
    IF queue = {} THEN {}
    ELSE {first.proc[2] : first \in {e \in {NextEvent} : e.proc[1] = "ship"}}

\* history of the grants: the ships granted a berth are stamped with the time
LogGrant(L, r, grantedProcs, t) ==
    [L EXCEPT !.granted[r] = @ \o grantedProcs,
              !.berthed_at = IF r = "cranes" THEN @
                             ELSE [s \in {grantedProcs[i][2] : i \in 1..Len(grantedProcs)}
                                      |-> t] @@ @]

LogRequest(L, r, proc, grantedProcs, t) ==
    LogGrant([L EXCEPT !.requested[r] = Append(@, proc)], r, grantedProcs, t)

-----------------------------------------------------------------------------
(* ship_generator *)

DrawableTypes(cfg) == {ct \in CargoTypes : cfg.cargo_distribution[ct] > 0}

\* the three draws of one pass of the generator: np.random.choice,
\* np.random.uniform, np.random.exponential
Draws(cfg) ==
    {[cargo_type |-> ct, cargo_amount |-> a, gap |-> g] :
        ct \in DrawableTypes(cfg), a \in UNION {CargoAmounts(c) : c \in CargoTypes},
        g \in InterArrivals}

\* what the global generator can yield next: the value at its position, or
\* any value where none is fixed yet
NextDraws ==
    IF rng.pos < Len(rng.stream) THEN {rng.stream[rng.pos + 1]} ELSE Draws(config)

\* the global generator yields its next values: what it yields at a position
\* is fixed, and unknown until it is drawn
NextDraw(d) ==
    /\ d.cargo_type \in DrawableTypes(config)
    /\ d.cargo_amount \in CargoAmounts(d.cargo_type)
    /\ rng.pos < Len(rng.stream) => d = rng.stream[rng.pos + 1]
    /\ rng' = [pos |-> rng.pos + 1,
               stream |-> IF rng.pos < Len(rng.stream) THEN rng.stream
                          ELSE Append(rng.stream, d)]

\* the global generator yields the values of the passes ds one after the other
DrawAll(ds) ==
    /\ \A i \in 1..Len(ds) :
          rng.pos + i <= Len(rng.stream) => rng.stream[rng.pos + i] = ds[i]
    /\ rng' = [pos |-> rng.pos + Len(ds),
               stream |-> IF rng.pos + Len(ds) <= Len(rng.stream) THEN rng.stream
                          ELSE SubSeq(rng.stream, 1, rng.pos) \o ds]

\* the number of ships of a run
ShipLimit ==
    IF collapse.pc # "idle" \/ scenarios.pc # "idle" THEN LadderShips
    ELSE IF config = ConfigFleet THEN FleetShips ELSE MaxShips

\* The values np.random.exponential yields are bounded: the gap drawn after
\* the last ship of the run ends at or after the horizon, where env.run
\* returns before it resumes the generator (the stop event is URGENT); in a
\* run without horizon it ends after the hours the run is followed for.
GapAdmitted(d) ==
    gen.ship_id + 1 >= ShipLimit =>
        IF simulation_hours = Unbounded
        THEN FLess(Whole(Horizon), FAdd(NextEvent.t, Whole(d.gap)))
        ELSE FLeq(Whole(simulation_hours), FAdd(NextEvent.t, Whole(d.gap)))

\* the local variable has no value yet
Unbound == [e |-> 0 - 1, m |-> <<>>]

\* one pass of the generator's "while True" loop: draw a ship, spawn its
\* process, sleep for the gap drawn
GeneratorLoop ==
    /\ \E d \in NextDraws :
          /\ GapAdmitted(d)
          /\ NextDraw(d)
          /\ gen' = [pc |-> "sleep", ship_id |-> gen.ship_id + 1]
          /\ Advance(<<Stub(NextEvent.t, URGENT, "init", ShipProc(gen.ship_id), NoTarget)>>
                     \o Timeout(NextEvent.t, Whole(d.gap), GenProc),
                     ship @@ (gen.ship_id :>
                        [pc |-> "init", cargo_type |-> d.cargo_type,
                         cargo_amount |-> d.cargo_amount,
                         arrival_time |-> Unbound, berth_wait_time |-> Unbound,
                         polls |-> 0]))

GenStart ==
    /\ Ready("init", GenProc)
    /\ GeneratorLoop
    /\ UNCHANGED <<report, collapse, scenarios, base_config, config, simulation_hours, res, storage, metrics, rail,
                   run_state, returned, log>>

GenTick ==
    /\ Ready("timeout", GenProc)
    /\ GeneratorLoop
    /\ UNCHANGED <<report, collapse, scenarios, base_config, config, simulation_hours, res, storage, metrics, rail,
                   run_state, returned, log>>

-----------------------------------------------------------------------------
(* ship_process *)

\* "if" in the place of "while": the headroom is checked once, and after one
\* hour of waiting the ship unloads whatever the level is
WaitOnceThenUnload(s, t) ==
    LET sh == ship[s]
        p == get_storage(sh.cargo_type)
    IN IF /\ sh.pc # "poll"
          /\ storage[p].level + sh.cargo_amount > StorageCapacity(config, p)
       THEN [pc |-> "poll", polls |-> sh.polls + 1,
             stubs |-> Timeout(t, Whole(PollDelay), ShipProc(s))]
       ELSE [pc |-> "unloading", polls |-> sh.polls,
             stubs |-> Timeout(t, FDiv(Whole(sh.cargo_amount),
                                       Whole(get_unloading_speed(config, sh.cargo_type))),
                               ShipProc(s))]

\* "while storage.level + cargo_amount > storage.capacity: yield env.timeout(1)",
\* then "yield env.timeout(cargo_amount / unloading_speed)": where the ship
\* yields next, and the timeout it schedules.
StorageWait(s, t) ==
    LET sh == ship[s]
        p == get_storage(sh.cargo_type)
    IN IF storage[p].level + sh.cargo_amount > StorageCapacity(config, p)
       THEN [pc |-> "poll", polls |-> sh.polls + 1,
             stubs |-> Timeout(t, Whole(PollDelay), ShipProc(s))]
       ELSE [pc |-> "unloading", polls |-> sh.polls,
             stubs |-> Timeout(t, FDiv(Whole(sh.cargo_amount),
                                       Whole(get_unloading_speed(config, sh.cargo_type))),
                               ShipProc(s))]

\* the process starts: arrival record, berth request
ShipArrive(s) ==
    /\ Ready("init", ShipProc(s))
    /\ LET t == NextEvent.t
           r == get_berth(ship[s].cargo_type)
           queue_length == Len(res[r].put_queue)
           q == Request(res[r], ResourceCapacity(config, r), ShipProc(s))
       IN /\ metrics' = [metrics EXCEPT !.ships_in_queue =
                            Append(@, [time |-> t, queue |-> queue_length])]
          /\ res' = [res EXCEPT ![r] = q.r]
          /\ log' = LogRequest(log, r, ShipProc(s), q.granted, t)
          /\ Advance(Succeed(t, "request", q.granted, r),
                     [ship EXCEPT ![s].pc = "wait_berth", ![s].arrival_time = t])
    /\ UNCHANGED <<report, collapse, scenarios, base_config, config, simulation_hours, storage, gen, rail, run_state, returned, rng>>

\* the berth request is granted: a dry ship requests a crane, a tanker goes
\* on to the storage wait
ShipBerthed(s) ==
    /\ Ready("request", ShipProc(s))
    /\ NextEvent.tgt = get_berth(ship[s].cargo_type)
    /\ ship[s].pc = "wait_berth"
    /\ LET t == NextEvent.t
           berth_wait_time == FSub(t, ship[s].arrival_time)
       IN IF NeedsCrane(ship[s].cargo_type)
          THEN LET q == Request(res["cranes"],
                                ResourceCapacity(config, "cranes"), ShipProc(s))
               IN /\ res' = [res EXCEPT !["cranes"] = q.r]
                  /\ log' = LogRequest(log, "cranes", ShipProc(s), q.granted, t)
                  /\ Advance(Succeed(t, "request", q.granted, "cranes"),
                             [ship EXCEPT ![s].pc = "wait_crane",
                                          ![s].berth_wait_time = berth_wait_time])
          ELSE LET w == StorageWait(s, t)
               IN /\ Advance(w.stubs,
                             [ship EXCEPT ![s].pc = w.pc, ![s].polls = w.polls,
                                          ![s].berth_wait_time = berth_wait_time])
                  /\ UNCHANGED <<res, log>>
    /\ UNCHANGED <<report, collapse, scenarios, base_config, config, simulation_hours, storage, metrics, gen, rail,
                   run_state, returned, rng>>

\* the crane request is granted: the storage wait starts
ShipCraned(s) ==
    /\ Ready("request", ShipProc(s))
    /\ NextEvent.tgt = "cranes"
    /\ ship[s].pc = "wait_crane"
    /\ LET w == StorageWait(s, NextEvent.t)
       IN Advance(w.stubs, [ship EXCEPT ![s].pc = w.pc, ![s].polls = w.polls])
    /\ UNCHANGED <<report, collapse, scenarios, base_config, config, simulation_hours, res, storage, metrics, gen, rail,
                   run_state, returned, rng, log>>

\* one hour later the storage headroom is checked again
ShipPoll(s) ==
    /\ Ready("timeout", ShipProc(s))
    /\ ship[s].pc = "poll"
    /\ LET w == StorageWait(s, NextEvent.t)
       IN Advance(w.stubs, [ship EXCEPT ![s].pc = w.pc, ![s].polls = w.polls])
    /\ UNCHANGED <<report, collapse, scenarios, base_config, config, simulation_hours, res, storage, metrics, gen, rail,
                   run_state, returned, rng, log>>

\* the unloading delay is over: "yield storage.put(cargo_amount)"
ShipUnloaded(s) ==
    /\ Ready("timeout", ShipProc(s))
    /\ ship[s].pc = "unloading"
    /\ LET t == NextEvent.t
           p == get_storage(ship[s].cargo_type)
           q == Put(storage[p], StorageCapacity(config, p), ShipProc(s),
                    ship[s].cargo_amount)
       IN /\ storage' = [storage EXCEPT ![p] = q.s]
          /\ log' = [log EXCEPT !.deposited[p] = @ + SumAmounts(q.granted)]
          /\ Advance(Succeed(t, "put", Procs(q.granted), p),
                     [ship EXCEPT ![s].pc = "putting"])
    /\ UNCHANGED <<report, collapse, scenarios, base_config, config, simulation_hours, res, metrics, gen, rail,
                   run_state, returned, rng>>

\* a recorder that stores the processing time as the waiting time
RecordProcessingAsWait(m, waiting_time, processing_time, cargo_amount) ==
    [m EXCEPT !.ships_processed = @ + 1,
              !.ship_waiting_times = Append(@, processing_time),
              !.ship_processing_times = Append(@, processing_time),
              !.cargo_processed = Append(@, cargo_amount)]

\* a recorder that replaces the latest sample by the new one
RecordLatestUsage(m, time, berths_busy, cranes_busy, storage_used, storage_capacity) ==
    [m EXCEPT !.berth_usage = <<[time |-> time, usage |-> berths_busy]>>,
              !.crane_usage = <<[time |-> time, usage |-> cranes_busy]>>,
              !.storage_usage = <<[time |-> time,
                    usage |-> FMul(FDiv(Whole(storage_used), Whole(storage_capacity)),
                                   Whole(100))]>>]

\* a recorder that stores the whole hours of the processing time in place of
\* the tonnage
RecordTimeAsCargo(m, waiting_time, processing_time, cargo_amount) ==
    [m EXCEPT !.ships_processed = @ + 1,
              !.ship_waiting_times = Append(@, waiting_time),
              !.ship_processing_times = Append(@, processing_time),
              !.cargo_processed = Append(@, FInt(processing_time))]

\* PortMetrics.record_ship_processing
record_ship_processing(m, waiting_time, processing_time, cargo_amount) ==
    [m EXCEPT !.ships_processed = @ + 1,
              !.ship_waiting_times = Append(@, waiting_time),
              !.ship_processing_times = Append(@, processing_time),
              !.cargo_processed = Append(@, cargo_amount)]

\* PortMetrics.record_resource_usage: "storage_used / storage_capacity * 100
\* if storage_capacity > 0 else 0"
record_resource_usage(m, time, berths_busy, cranes_busy, storage_used, storage_capacity) ==
    [m EXCEPT !.berth_usage = Append(@, [time |-> time, usage |-> berths_busy]),
              !.crane_usage = Append(@, [time |-> time, usage |-> cranes_busy]),
              !.storage_usage = Append(@, [time |-> time,
                    usage |-> IF storage_capacity > 0
                              THEN FMul(FDiv(Whole(storage_used), Whole(storage_capacity)),
                                        Whole(100))
                              ELSE Zero])]

\* "if ship_id % 10 == 0": the departing ship triggers a utilization snapshot
SnapshotDue(s) == s % SnapshotEvery = 0

\* a ship that leaves without giving its berth back
CraneReleasedOnly(cargo_type) ==
    IF NeedsCrane(cargo_type) THEN <<"cranes">> ELSE <<>>

\* a ship that leaves with its crane
BerthReleasedOnly(cargo_type) == <<get_berth(cargo_type)>>

\* the resources a ship releases when it leaves its with-blocks, inner first
HeldResources(cargo_type) ==
    IF NeedsCrane(cargo_type) THEN <<"cranes", get_berth(cargo_type)>>
    ELSE <<get_berth(cargo_type)>>

\* the deposit is done: the with-blocks are left (crane, then berth), the
\* departure is recorded, the process ends
ShipDepart(s) ==
    /\ Ready("put", ShipProc(s))
    /\ ship[s].pc = "putting"
    /\ LET t == NextEvent.t
           sh == ship[s]
           p == get_storage(sh.cargo_type)
           g == TriggerGetContainer(storage[p])
           held == HeldResources(sh.cargo_type)
           heldSet == {held[i] : i \in 1..Len(held)}
           res2 == [r \in Resources |->
                       IF r \in heldSet THEN Release(res[r], ShipProc(s)) ELSE res[r]]
           storage2 == [storage EXCEPT ![p] = g.s]
           m1 == record_ship_processing(metrics, sh.berth_wait_time,
                                        FSub(t, sh.arrival_time), sh.cargo_amount)
           m2 == IF SnapshotDue(s)
                 THEN record_resource_usage(m1, t,
                          Len(res2["oil_berths"].users) + Len(res2["dry_berths"].users),
                          Len(res2["cranes"].users),
                          storage2["grain_storage"].level
                              + storage2["general_storage"].level
                              + storage2["oil_storage"].level,
                          total_storage_capacity(config))
                 ELSE m1
       IN /\ storage' = storage2
          /\ res' = res2
          /\ metrics' = m2
          /\ log' = [log EXCEPT !.railed[p] = @ + SumAmounts(g.granted)]
          /\ Advance(Succeed(t, "get", Procs(g.granted), p)
                     \o [i \in 1..Len(held) |->
                            Stub(t, NORMAL, "release", ShipProc(s), held[i])]
                     \o <<Stub(t, NORMAL, "process", ShipProc(s), NoTarget)>>,
                     [ship EXCEPT ![s].pc = "done"])
    /\ UNCHANGED <<report, collapse, scenarios, base_config, config, simulation_hours, gen, rail, run_state, returned, rng>>

\* the Release event of a left with-block is processed: Resource._trigger_put
\* grants the head of the queue
ReleaseEvent ==
    /\ run_state = "running"
    /\ queue # {}
    /\ NextEvent.kind = "release"
    /\ LET r == NextEvent.tgt
           q == TriggerPutResource(res[r], ResourceCapacity(config, r))
       IN /\ res' = [res EXCEPT ![r] = q.r]
          /\ log' = IF r \in LoggedResources
                    THEN LogGrant(log, r, q.granted, NextEvent.t)
                    ELSE log
          /\ Advance(Succeed(NextEvent.t, "request", q.granted, r), ship)
    /\ UNCHANGED <<report, collapse, scenarios, base_config, config, simulation_hours, storage, metrics, gen, rail,
                   run_state, returned, rng>>

\* the event of a finished process: nobody waits for it
ProcessEnd ==
    /\ run_state = "running"
    /\ queue # {}
    /\ NextEvent.kind = "process"
    /\ Advance(<<>>, ship)
    /\ UNCHANGED <<report, collapse, scenarios, base_config, config, simulation_hours, res, storage, metrics, gen,
                   rail, run_state, returned, rng, log>>

-----------------------------------------------------------------------------
(* railway_unload_process *)

Min(a, b) == IF a <= b THEN a ELSE b

\* "interval = 24 / port.config['trains_per_day']"
TrainInterval == FDiv(Whole(HoursPerDay), Whole(config.trains_per_day))

TotalLevel(S) ==
    S["grain_storage"].level + S["general_storage"].level + S["oil_storage"].level

\* the pools in withdrawal priority order
PriorityPools == <<"grain_storage", "general_storage", "oil_storage">>

FallbackPc == <<"fb_grain", "fb_general", "fb_oil">>

\* the dispatcher issues "yield pool.get(take)" on pool number k: the storage,
\* the events and the dispatcher's position after the call
IssueGet(S, t, k, pc, amount, take) ==
    LET p == PriorityPools[k]
        g == Get(S[p], RailProc, take)
    IN [storage |-> [S EXCEPT ![p] = g.s],
        stubs |-> Succeed(t, "get", Procs(g.granted), p),
        rail |-> [pc |-> pc, amount |-> amount, take |-> take],
        pool |-> p, railed |-> SumAmounts(g.granted)]

\* "yield env.timeout(2)": the train is loaded
StartLoading(S, t, amount) ==
    [storage |-> S, stubs |-> Timeout(t, Whole(TrainLoadingTime), RailProc),
     rail |-> [pc |-> "loading", amount |-> amount, take |-> 0],
     pool |-> "grain_storage", railed |-> 0]

RECURSIVE Fallback(_, _, _, _)
\* the fallback branch from its k-th "if" on: the first pool in priority order
\* that holds something gives min(amount, level)
Fallback(S, t, k, amount) ==
    IF k > Len(PriorityPools) THEN StartLoading(S, t, amount)
    ELSE IF amount > 0 /\ S[PriorityPools[k]].level > 0
         THEN IssueGet(S, t, k, FallbackPc[k], amount,
                       Min(amount, S[PriorityPools[k]].level))
         ELSE Fallback(S, t, k + 1, amount)

\* history of the firings: when the track was granted, the levels the
\* dispatcher found, what it has taken from each pool since, and whether it has
\* reached the loading delay
LogFiring(F, t, S, w) ==
    LET f == [time |-> t,
              levels |-> [p \in Pools |-> S[p].level],
              taken |-> [p \in Pools |-> IF p = w.pool THEN w.railed ELSE 0],
              done |-> w.rail.pc = "loading"]
    IN Append(F, f)

LogTaken(F, w) ==
    [F EXCEPT ![Len(F)].taken[w.pool] = @ + w.railed,
              ![Len(F)].done = w.rail.pc = "loading"]

\* a dispatcher that compares the train with the three pools together and
\* asks the grain pool for a full train
WithdrawOnTotalLevel(S, t) ==
    LET unload_amount == config.train_capacity
    IN IF TotalLevel(S) >= unload_amount
       THEN IssueGet(S, t, 1, "single", unload_amount, unload_amount)
       ELSE Fallback(S, t, 1, Min(unload_amount, TotalLevel(S)))

\* a dispatcher that looks at the general-cargo pool before the grain pool
WithdrawGeneralFirst(S, t) ==
    LET unload_amount == config.train_capacity
    IN IF S["general_storage"].level >= unload_amount
       THEN IssueGet(S, t, 2, "single", unload_amount, unload_amount)
       ELSE IF S["grain_storage"].level >= unload_amount
       THEN IssueGet(S, t, 1, "single", unload_amount, unload_amount)
       ELSE IF S["oil_storage"].level >= unload_amount
       THEN IssueGet(S, t, 3, "single", unload_amount, unload_amount)
       ELSE Fallback(S, t, 1, Min(unload_amount, TotalLevel(S)))

\* the withdrawal of one firing, from "unload_amount = ..." to its first yield
Withdraw(S, t) ==
    LET unload_amount == config.train_capacity
    IN IF S["grain_storage"].level >= unload_amount
       THEN IssueGet(S, t, 1, "single", unload_amount, unload_amount)
       ELSE IF S["general_storage"].level >= unload_amount
       THEN IssueGet(S, t, 2, "single", unload_amount, unload_amount)
       ELSE IF S["oil_storage"].level >= unload_amount
       THEN IssueGet(S, t, 3, "single", unload_amount, unload_amount)
       ELSE Fallback(S, t, 1, Min(unload_amount, TotalLevel(S)))

\* the dispatcher goes on after a get returned
AfterGet(S, t) ==
    CASE rail.pc = "single" -> StartLoading(S, t, rail.amount)
      [] rail.pc = "fb_grain" -> Fallback(S, t, 2, rail.amount - rail.take)
      [] rail.pc = "fb_general" -> Fallback(S, t, 3, rail.amount - rail.take)
      [] rail.pc = "fb_oil" -> StartLoading(S, t, rail.amount)

RailStart ==
    /\ Ready("init", RailProc)
    /\ rail' = [rail EXCEPT !.pc = "interval"]
    /\ Advance(Timeout(NextEvent.t, TrainInterval, RailProc), ship)
    /\ UNCHANGED <<report, collapse, scenarios, base_config, config, simulation_hours, res, storage, metrics, gen,
                   run_state, returned, rng, log>>

\* the interval is over: the dispatcher requests a track
RailRequest ==
    /\ Ready("timeout", RailProc)
    /\ rail.pc = "interval"
    /\ LET q == Request(res["railway"], ResourceCapacity(config, "railway"), RailProc)
       IN /\ res' = [res EXCEPT !["railway"] = q.r]
          /\ Advance(Succeed(NextEvent.t, "request", q.granted, "railway"), ship)
    /\ rail' = [rail EXCEPT !.pc = "wait_track"]
    /\ UNCHANGED <<report, collapse, scenarios, base_config, config, simulation_hours, storage, metrics, gen,
                   run_state, returned, rng, log>>

\* the track is granted: the withdrawal starts
RailFire ==
    /\ Ready("request", RailProc)
    /\ rail.pc = "wait_track"
    /\ LET w == Withdraw(storage, NextEvent.t)
       IN /\ storage' = w.storage
          /\ rail' = w.rail
          /\ log' = [log EXCEPT !.railed[w.pool] = @ + w.railed,
                                !.firings = LogFiring(@, NextEvent.t, storage, w)]
          /\ Advance(w.stubs, ship)
    /\ UNCHANGED <<report, collapse, scenarios, base_config, config, simulation_hours, res, metrics, gen,
                   run_state, returned, rng>>

\* a get event is processed: Container._trigger_put serves the blocked
\* deposits, then the dispatcher goes on
RailGot ==
    /\ Ready("get", RailProc)
    /\ rail.pc \in {"single", "fb_grain", "fb_general", "fb_oil"}
    /\ LET t == NextEvent.t
           p == NextEvent.tgt
           q == TriggerPutContainer(storage[p], StorageCapacity(config, p))
           w == AfterGet([storage EXCEPT ![p] = q.s], t)
       IN /\ storage' = w.storage
          /\ rail' = w.rail
          /\ log' = [log EXCEPT !.deposited[p] = @ + SumAmounts(q.granted),
                                !.railed[w.pool] = @ + w.railed,
                                !.firings = LogTaken(@, w)]
          /\ Advance(Succeed(t, "put", Procs(q.granted), p) \o w.stubs, ship)
    /\ UNCHANGED <<report, collapse, scenarios, base_config, config, simulation_hours, res, metrics, gen,
                   run_state, returned, rng>>

\* a dispatcher without the with-block: the train is loaded and the track is
\* never given back
RailLoadedKeepingTrack ==
    /\ Ready("timeout", RailProc)
    /\ rail.pc = "loading"
    /\ rail' = [rail EXCEPT !.pc = "interval"]
    /\ Advance(Timeout(NextEvent.t, TrainInterval, RailProc), ship)
    /\ UNCHANGED <<report, collapse, scenarios, base_config, config, simulation_hours, res, storage, metrics, gen,
                   run_state, returned, rng, log>>

\* the train is loaded: the track is released, the next interval starts
RailLoaded ==
    /\ Ready("timeout", RailProc)
    /\ rail.pc = "loading"
    /\ res' = [res EXCEPT !["railway"] = Release(@, RailProc)]
    /\ rail' = [rail EXCEPT !.pc = "interval"]
    /\ Advance(<<Stub(NextEvent.t, NORMAL, "release", RailProc, "railway")>>
               \o Timeout(NextEvent.t, TrainInterval, RailProc), ship)
    /\ UNCHANGED <<report, collapse, scenarios, base_config, config, simulation_hours, storage, metrics, gen,
                   run_state, returned, rng, log>>

-----------------------------------------------------------------------------
(* Sums and means of the analyzer *)

RECURSIVE SumSeq(_)
SumSeq(q) == IF q = <<>> THEN 0 ELSE Head(q) + SumSeq(Tail(q))

\* the floats of a list of integers
Floats(xs) == [i \in 1..Len(xs) |-> Whole(xs[i])]

RECURSIVE SumFrom(_, _, _)
\* "for x in xs[i:]: acc += x"
SumFrom(xs, i, acc) ==
    IF i > Len(xs) THEN acc ELSE SumFrom(xs, i + 1, FAdd(acc, xs[i]))

\* "sum(xs)": the elements are added one after the other, from 0
Sum(xs) == SumFrom(xs, 1, Zero)

RECURSIVE Lane(_, _, _)
\* the j-th of the eight partial sums of numpy's pairwise summation, over k
\* blocks of eight elements
Lane(xs, j, k) ==
    IF k = 1 THEN xs[j] ELSE FAdd(Lane(xs, j, k - 1), xs[8 * (k - 1) + j])

\* numpy's sum of at most 128 floats: fewer than eight are added one after the
\* other; otherwise eight partial sums are added in pairs, and the elements
\* left over after the last block of eight are added to the result
PairwiseSum(xs) ==
    IF Len(xs) < 8 THEN Sum(xs)
    ELSE CHOOSE sum \in
             {SumFrom(xs, 8 * (Len(xs) \div 8) + 1,
                      FAdd(FAdd(FAdd(r[1], r[2]), FAdd(r[3], r[4])),
                           FAdd(FAdd(r[5], r[6]), FAdd(r[7], r[8])))) :
                 r \in {[j \in 1..8 |-> Lane(xs, j, Len(xs) \div 8)]}} : TRUE

\* "np.mean(xs) if xs else 0" of a list of floats: the sum, added to the
\* initial 0 of the reduction, divided by the number of elements
FMeanOrZero(xs) ==
    IF Len(xs) > 0 THEN FDiv(FAdd(Zero, PairwiseSum(xs)), Whole(Len(xs))) ELSE Zero

\* "np.mean(xs) if xs else 0" of a list of integers: they are summed as floats
MeanOrZero(xs) == FMeanOrZero(Floats(xs))

\* "max(xs) if xs else 0"
MaxOrZero(xs) ==
    IF Len(xs) > 0
    THEN CHOOSE m \in {xs[i] : i \in 1..Len(xs)} : \A i \in 1..Len(xs) : xs[i] <= m
    ELSE 0

-----------------------------------------------------------------------------
(* calculate_capacity_metrics *)

\* the keys of the capacities dict in insertion order: 'Причалы', 'Краны',
\* 'Склады', 'ЖД'
CapacityNames == <<"berths", "cranes", "storage", "rail">>

\* "0.7": the float nearest to 7/10
CraneEfficiency == FDiv(Whole(7), Whole(10))

\* "min(capacities.values())"
MinCapacity(capacities) ==
    CHOOSE c \in {capacities[CapacityNames[i]] : i \in 1..Len(CapacityNames)} :
        \A i \in 1..Len(CapacityNames) : ~FLess(capacities[CapacityNames[i]], c)

\* the positions, in insertion order, of the smallest values
SmallestValues(capacities) ==
    {i \in 1..Len(CapacityNames) : capacities[CapacityNames[i]] = MinCapacity(capacities)}

\* an argmin that keeps the last of the smallest elements
LastSmallest(capacities) ==
    CHOOSE name \in
        {CapacityNames[CHOOSE i \in smallest : \A j \in smallest : j <= i] :
            smallest \in {SmallestValues(capacities)}} : TRUE

\* "min(capacities, key=capacities.get)": the first key, in insertion order,
\* that has the smallest value
Bottleneck(capacities) ==
    CHOOSE name \in
        {CapacityNames[CHOOSE i \in smallest : \A j \in smallest : i <= j] :
            smallest \in {SmallestValues(capacities)}} : TRUE

\* the system status: "На пределе" (critical), "Умеренная нагрузка"
\* (moderate), "Есть значительный резерв" (ample)
SystemStatus(capacity_utilization) ==
    IF FGreater(capacity_utilization, Whole(CriticalUtilization)) THEN "critical"
    ELSE IF FGreater(capacity_utilization, Whole(ModerateUtilization)) THEN "moderate"
    ELSE "ample"

StatusColor(system_status) ==
    CASE system_status = "critical" -> "red"
      [] system_status = "moderate" -> "orange"
      [] OTHER -> "green"

\* an issue list whose thresholds are reached by the threshold value itself
IssuesAtThreshold(max_queue, avg_wait_time, avg_storage_usage) ==
    (IF max_queue >= CriticalQueue THEN <<"queue">> ELSE <<>>)
    \o (IF ~FGreater(Whole(CriticalWait), avg_wait_time) THEN <<"wait">> ELSE <<>>)
    \o (IF ~FGreater(Whole(CriticalStorage), avg_storage_usage) THEN <<"storage">> ELSE <<>>)

\* the critical issues, in the order of the three tests; an entry stands for
\* the message appended
CriticalIssues(max_queue, avg_wait_time, avg_storage_usage) ==
    (IF max_queue > CriticalQueue THEN <<"queue">> ELSE <<>>)
    \o (IF FGreater(avg_wait_time, Whole(CriticalWait)) THEN <<"wait">> ELSE <<>>)
    \o (IF FGreater(avg_storage_usage, Whole(CriticalStorage)) THEN <<"storage">> ELSE <<>>)

\* an analyzer without the fallbacks for an empty log and a zero capacity
DivideUnguarded(x, y, fallback) == FDiv(x, y)

\* "x / y if y > 0 else fallback"
DivideOr(x, y, fallback) == IF FGreater(y, Zero) THEN FDiv(x, y) ELSE fallback

\* "8760 / simulation_hours" raises ZeroDivisionError: the function returns
\* no report
AnalyzerRaises(hours) == hours = 0

\* the values of the report that are computed from the reductions over the
\* lists of the log
ReportOf(m, cfg, hours, total_cargo, avg_wait_time, avg_processing_time, avg_berth_usage, avg_crane_usage, avg_storage_usage, avg_queue, max_queue) ==
    LET annual_cargo == FMul(total_cargo, FDiv(Whole(HoursPerYear), Whole(hours)))
        total_berths == cfg.oil_berths + cfg.dry_berths
        berth_utilization ==
            FMul(DivideOr(avg_berth_usage, Whole(total_berths), Zero), Whole(100))
        crane_utilization ==
            FMul(DivideOr(avg_crane_usage, Whole(cfg.cranes), Zero), Whole(100))
        avg_ship_time == IF FGreater(avg_processing_time, Zero)
                         THEN avg_processing_time ELSE Whole(DefaultShipTime)
        ships_per_year_capacity ==
            FDiv(Whole(total_berths * HoursPerYear), avg_ship_time)
        avg_cargo_per_ship ==
            DivideOr(total_cargo, Whole(m.ships_processed), Whole(DefaultShipCargo))
        berth_capacity_annual == FMul(ships_per_year_capacity, avg_cargo_per_ship)
        crane_capacity_annual ==
            FMul(WholeTimes(cfg.cranes * cfg.general_speed, HoursPerYear), CraneEfficiency)
        total_capacity == cfg.grain_storage_capacity + cfg.general_storage_capacity
                              + cfg.oil_storage_capacity
        storage_capacity_annual == WholeTimes(total_capacity, StorageTurnovers)
        railway_capacity_annual ==
            WholeTimes(cfg.trains_per_day * cfg.train_capacity, DaysPerYear)
    IN CHOOSE result \in
        {LET theoretical_max_capacity == MinCapacity(capacities)
             capacity_utilization ==
                 FMul(DivideOr(annual_cargo, theoretical_max_capacity, Zero), Whole(100))
             reserve_capacity ==
                 IF FGreater(theoretical_max_capacity, annual_cargo)
                 THEN FSub(theoretical_max_capacity, annual_cargo) ELSE Zero
             system_status == SystemStatus(capacity_utilization)
         IN [computed |-> TRUE,
             annual_cargo_tons |-> annual_cargo,
             ships_processed |-> m.ships_processed,
             avg_wait_time_hours |-> avg_wait_time,
             avg_processing_time_hours |-> avg_processing_time,
             berth_utilization_pct |-> berth_utilization,
             crane_utilization_pct |-> crane_utilization,
             storage_utilization_pct |-> avg_storage_usage,
             avg_queue_length |-> avg_queue,
             max_queue_length |-> max_queue,
             theoretical_max_capacity_tons |-> theoretical_max_capacity,
             capacity_utilization_pct |-> capacity_utilization,
             reserve_capacity_tons |-> reserve_capacity,
             bottleneck |-> Bottleneck(capacities),
             capacities |-> capacities,
             critical_issues |-> CriticalIssues(max_queue, avg_wait_time, avg_storage_usage),
             system_status |-> system_status,
             status_color |-> StatusColor(system_status)] :
            capacities \in {[berths |-> berth_capacity_annual,
                             cranes |-> crane_capacity_annual,
                             storage |-> storage_capacity_annual,
                             rail |-> railway_capacity_annual]}} : TRUE

\* calculate_capacity_metrics(metrics, port, config, simulation_hours); port
\* is not used by the function.  Each reduction over a list of the log is
\* computed once.
calculate_capacity_metrics(m, cfg, hours) ==
    LET Usage(samples) == [i \in 1..Len(samples) |-> samples[i].usage]
        Queue(samples) == [i \in 1..Len(samples) |-> samples[i].queue]
    IN IF AnalyzerRaises(hours) THEN [computed |-> FALSE, raised |-> TRUE]
       ELSE CHOOSE result \in
               {ReportOf(m, cfg, hours, total_cargo, avg_wait_time, avg_processing_time,
                         avg_berth_usage, avg_crane_usage, avg_storage_usage, avg_queue,
                         max_queue) :
                   total_cargo \in {Sum(Floats(m.cargo_processed))},
                   avg_wait_time \in {FMeanOrZero(m.ship_waiting_times)},
                   avg_processing_time \in {FMeanOrZero(m.ship_processing_times)},
                   avg_berth_usage \in {MeanOrZero(Usage(m.berth_usage))},
                   avg_crane_usage \in {MeanOrZero(Usage(m.crane_usage))},
                   avg_storage_usage \in {FMeanOrZero(Usage(m.storage_usage))},
                   avg_queue \in {MeanOrZero(Queue(m.ships_in_queue))},
                   max_queue \in {MaxOrZero(Queue(m.ships_in_queue))}} : TRUE

\* main, the run button: run_simulation has returned, the report is computed
\* from its metrics and stored in the session with the metrics and the
\* configuration, in the place of what a run before had stored
Analyze ==
    /\ run_state = "finished"
    /\ report' = calculate_capacity_metrics(metrics, config, simulation_hours)
    /\ run_state' = "reported"
    /\ UNCHANGED <<scenarios, base_config, config, simulation_hours, now, queue, eid, res, storage, metrics,
                   ship, gen, rail, returned, rng, log, collapse>>

\* main, the button that clears all results: the report and the metrics, the
\* collapse data and the stress scenarios stored in the session are deleted.
\* A button is pressed between two runs of the script, never inside a handler.
ClearResults ==
    /\ run_state \in {"idle", "reported", "raised"}
    /\ collapse.pc \in {"idle", "returned"}
    /\ scenarios.pc \in {"idle", "returned", "raised"}
    /\ report' = NoReport
    /\ collapse' = NoSearch
    /\ scenarios' = NoBattery
    /\ UNCHANGED <<base_config, config, simulation_hours, now, queue, eid, res, storage, metrics,
                   ship, gen, rail, run_state, returned, rng, log>>

-----------------------------------------------------------------------------
(* env.run(until=simulation_hours) *)

\* the stop event is reached: env.run returns, run_simulation returns metrics
StopSimulation ==
    /\ Ready("until", EnvProc)
    /\ now' = NextEvent.t
    /\ queue' = queue \ {NextEvent}
    /\ run_state' = "finished"
    /\ returned' = Append(returned, metrics)
    /\ UNCHANGED <<report, collapse, scenarios, base_config, config, simulation_hours, eid, res, storage, metrics, ship,
                   gen, rail, rng, log>>

\* one event is processed
Step ==
    \/ GenStart
    \/ GenTick
    \/ \E s \in Resumed : ShipArrive(s)
    \/ \E s \in Resumed : ShipBerthed(s)
    \/ \E s \in Resumed : ShipCraned(s)
    \/ \E s \in Resumed : ShipPoll(s)
    \/ \E s \in Resumed : ShipUnloaded(s)
    \/ \E s \in Resumed : ShipDepart(s)
    \/ ReleaseEvent
    \/ ProcessEnd
    \/ RailStart
    \/ RailRequest
    \/ RailFire
    \/ RailGot
    \/ RailLoaded

Next == Step \/ StopSimulation \/ Analyze \/ ClearResults

Spec == Init /\ [][Next]_vars

-----------------------------------------------------------------------------
(* A run without horizon *)

\* The port of ConfigA with a general-cargo store of 2000 t: every count,
\* capacity, speed and rate is positive.
ConfigSmallStore == [ConfigA EXCEPT !.general_storage_capacity = 2000]

InitLive == InitRun(ConfigSmallStore, Unbounded)

\* env.run processes events as long as there are any
LiveSpec == InitLive /\ [][Step]_vars /\ WF_vars(Step)

-----------------------------------------------------------------------------
(* Consecutive runs in one process *)

\* a second run on the Port and the PortMetrics of the first: only the
\* Environment and the two processes are new
RunAgainOnUsedPort ==
    /\ run_state \in {"finished", "reported"}
    /\ Len(returned) < MaxRuns
    /\ now' = run_simulation(simulation_hours).now
    /\ queue' = run_simulation(simulation_hours).queue
    /\ eid' = run_simulation(simulation_hours).eid
    /\ ship' = run_simulation(simulation_hours).ship
    /\ gen' = run_simulation(simulation_hours).gen
    /\ rail' = run_simulation(simulation_hours).rail
    /\ log' = run_simulation(simulation_hours).log
    /\ run_state' = "running"
    /\ UNCHANGED <<report, collapse, scenarios, base_config, config, simulation_hours,
                   res, storage, metrics, returned, rng>>

\* run_simulation is called again with the same configuration and horizon (a
\* ladder point, a stress scenario, or the run button pressed again): a new
\* Environment, PortMetrics and Port are built; np.random is not touched
RunAgain ==
    /\ run_state \in {"finished", "reported"}
    /\ Len(returned) < MaxRuns
    /\ now' = run_simulation(simulation_hours).now
    /\ queue' = run_simulation(simulation_hours).queue
    /\ eid' = run_simulation(simulation_hours).eid
    /\ res' = run_simulation(simulation_hours).res
    /\ storage' = run_simulation(simulation_hours).storage
    /\ metrics' = run_simulation(simulation_hours).metrics
    /\ ship' = run_simulation(simulation_hours).ship
    /\ gen' = run_simulation(simulation_hours).gen
    /\ rail' = run_simulation(simulation_hours).rail
    /\ log' = run_simulation(simulation_hours).log
    /\ run_state' = "running"
    /\ UNCHANGED <<report, collapse, scenarios, base_config, config, simulation_hours, returned, rng>>

InitRuns == InitRun(ConfigRuns, RunsHorizon)

-----------------------------------------------------------------------------
(* The analyzer on its own: the logs, configurations and hours it is given *)

\* 8760 / 146 = 60: a run of 146 hours is a sixtieth of a year
AnalyzerHours == 146

\* Storage of 25 kt (600 kt a year) is the smallest capacity.
ConfigStorageBound ==
    [ConfigA EXCEPT !.grain_storage_capacity = 10000, !.general_storage_capacity = 5000,
                    !.oil_storage_capacity = 10000]

\* One berth and one crane: with a ship of 7 kt handled in 10 hours the berth
\* and the cranes both give 6132 kt a year; storage and rail both give 8760.
ConfigTies ==
    [ConfigA EXCEPT !.oil_berths = 0, !.dry_berths = 1, !.cranes = 1,
                    !.grain_storage_capacity = 100000, !.general_storage_capacity = 65000,
                    !.oil_storage_capacity = 200000]

\* As ConfigTies with three cranes: storage and rail tie for the minimum.
ConfigStorageRailTie == [ConfigTies EXCEPT !.cranes = 3]

\* No berth and no crane.
ConfigNoBerthNoCrane ==
    [ConfigA EXCEPT !.oil_berths = 0, !.dry_berths = 0, !.cranes = 0]

\* One berth and five cranes, large stores and trains: with a ship of 7 kt
\* handled in 2 hours the berth gives 30660 kt a year, and the cranes give the
\* float just below it, 5 * 1000 * 8760 * 0.7 = 30659999.999999996.
ConfigRoundedTie ==
    [ConfigTies EXCEPT !.cranes = 5, !.grain_storage_capacity = 2000000,
                       !.train_capacity = 8000]

\* Three berths, 21 trains a day of 4000 t: the rail gives 30660 kt a year;
\* with three ships of 2, 2 and 3 kt handled in 2 hours each the berths give
\* the float just above it, 13140.0 * (7000.0 / 3) = 30660000.000000004.
ConfigRoundedRail ==
    [ConfigTies EXCEPT !.oil_berths = 2, !.cranes = 7, !.grain_storage_capacity = 2000000,
                       !.trains_per_day = 21, !.train_capacity = 4000]

AnalyzerConfigs ==
    {ConfigStorageBound, ConfigTies, ConfigStorageRailTie, ConfigNoBerthNoCrane,
     ConfigRoundedTie, ConfigRoundedRail}

\* the per-ship lists of a log: waiting times, processing times, tonnages
AnalyzerFleets ==
    {[waits |-> <<>>, times |-> <<>>, cargo |-> <<>>],
     [waits |-> <<0, 0>>, times |-> <<2, 3>>, cargo |-> <<3000, 3000>>],
     [waits |-> <<71, 73>>, times |-> <<73, 75>>, cargo |-> <<5000, 3000>>],
     [waits |-> <<72, 74>>, times |-> <<74, 76>>, cargo |-> <<5000, 4000>>],
     [waits |-> <<0>>, times |-> <<10>>, cargo |-> <<7000>>],
     [waits |-> <<0>>, times |-> <<2>>, cargo |-> <<7000>>],
     [waits |-> <<0, 0, 0>>, times |-> <<2, 2, 2>>, cargo |-> <<2000, 2000, 3000>>],
     [waits |-> <<72>>, times |-> <<73>>, cargo |-> <<5000>>]}

\* the queue lengths met by the arriving ships
AnalyzerQueues ==
    {<<>>, <<0, 0>>, <<0, 0, 1, 2, 3, 4, 5>>, <<0, 0, 1, 2, 3, 4, 5, 6>>}

\* the utilization snapshots: berths busy, cranes busy, storage percentage
AnalyzerSnapshots ==
    {<<>>,
     <<[berths |-> 1, cranes |-> 1, pct |-> 95]>>,
     <<[berths |-> 1, cranes |-> 0, pct |-> 96]>>,
     <<[berths |-> 1, cranes |-> 1, pct |-> 94], [berths |-> 2, cranes |-> 1, pct |-> 96]>>}

\* the MetricsLog with the given contents, the hours and percentages being
\* whole numbers; samples are stamped in order
MetricsLogOf(f, q, u) ==
    [ships_processed |-> Len(f.cargo),
     ships_in_queue |-> [i \in 1..Len(q) |-> [time |-> Whole(i - 1), queue |-> q[i]]],
     berth_usage |-> [i \in 1..Len(u) |-> [time |-> Whole(80 * i), usage |-> u[i].berths]],
     crane_usage |-> [i \in 1..Len(u) |-> [time |-> Whole(80 * i), usage |-> u[i].cranes]],
     storage_usage |-> [i \in 1..Len(u) |->
                          [time |-> Whole(80 * i), usage |-> Whole(u[i].pct)]],
     ship_waiting_times |-> Floats(f.waits),
     ship_processing_times |-> Floats(f.times),
     cargo_processed |-> f.cargo]

\* the logs given to the analyzer: no more departures than arrivals, and a
\* snapshot only after a departure
MetricsLogs ==
    {MetricsLogOf(x[1], x[2], x[3]) :
        x \in {y \in AnalyzerFleets \X AnalyzerQueues \X AnalyzerSnapshots :
                  /\ Len(y[1].cargo) <= Len(y[2])
                  /\ Len(y[3]) > 0 => Len(y[1].cargo) > 0}}

\* a run has returned its log; main calls the analyzer
InitAnalyzer ==
    /\ config \in AnalyzerConfigs
    /\ simulation_hours = AnalyzerHours
    /\ metrics \in MetricsLogs
    /\ now = Whole(AnalyzerHours)
    /\ queue = {}
    /\ eid = 0
    /\ res = NewResources
    /\ storage = NewStorage
    /\ ship = <<>>
    /\ gen = [pc |-> "sleep", ship_id |-> 0]
    /\ rail = [pc |-> "interval", amount |-> 0, take |-> 0]
    /\ log = NewLog
    /\ run_state = "finished"
    /\ returned = <<metrics>>
    /\ rng = NewGenerator
    /\ report = NoReport
    /\ collapse = NoSearch
    /\ scenarios = NoBattery
    /\ base_config = config

NextAnalyzer == Analyze \/ ClearResults

SpecAnalyzer == InitAnalyzer /\ [][NextAnalyzer]_vars

-----------------------------------------------------------------------------
(* find_collapse_point *)

\* load_multipliers, in tenths: 1.0, 1.1, ..., 2.0, 2.5, 3.0
LoadMultipliers == <<10, 11, 12, 13, 14, 15, 16, 17, 18, 19, 20, 25, 30>>

\* a threshold not reached: None
None == 0

\* the float of a literal with one decimal, given in tenths: 1.1 is the float
\* nearest to 11/10
Tenths(k) == FDiv(Whole(k), Whole(10))

\* "int(base_ships * multiplier)": the float product, truncated
\* (45 * 1.4 = 62.99999999999999, 700 * 0.7 = 489.99999999999994)
IntOfProduct(n, tenths) == FInt(FMul(Whole(n), Tenths(tenths)))

\* "test_config = config": the same dict under a second name
SameDict(cfg) == [caller |-> cfg, copy |-> cfg, same |-> TRUE]

\* "copy.deepcopy(config)": the caller's dict and a copy that shares nothing
\* with it
deepcopy(cfg) == [caller |-> cfg, copy |-> cfg, same |-> FALSE]

\* "test_config[key] = value": the assignment is seen through every name of
\* the dict assigned to
SetItem(d, key, value) ==
    [caller |-> IF d.same THEN [d.caller EXCEPT ![key] = value] ELSE d.caller,
     copy |-> [d.copy EXCEPT ![key] = value],
     same |-> d.same]

\* the passes of the generator in a run in which the ships of the given cargo
\* types and tonnages come at once one after the other, and the ship after
\* the last would come when the hours of the run are over
Passes(ships, hours) ==
    [i \in 1..Len(ships) |->
        [cargo_type |-> ships[i][1], cargo_amount |-> ships[i][2],
         gap |-> IF i < Len(ships) THEN 0 ELSE hours]]

\* "sum([has_critical_queue, has_critical_wait, has_critical_storage])"
CriticalCount(capacity_metrics) ==
    (IF capacity_metrics.max_queue_length > CriticalQueue THEN 1 ELSE 0)
    + (IF FGreater(capacity_metrics.avg_wait_time_hours, Whole(CriticalWait)) THEN 1 ELSE 0)
    + (IF FGreater(capacity_metrics.storage_utilization_pct, Whole(CriticalStorage))
       THEN 1 ELSE 0)

\* a threshold set by the first point whose count is exactly k
ThresholdOnExactCount(load, critical_count, k, multiplier) ==
    IF load = None /\ critical_count = k THEN multiplier ELSE load

\* a threshold that is overwritten by every point reaching the count
LatestThreshold(load, critical_count, k, multiplier) ==
    IF critical_count >= k THEN multiplier ELSE load

\* "if first_issues_load is None and critical_count >= 1:
\*      first_issues_load = multiplier", and so for 2 and 3
Threshold(load, critical_count, k, multiplier) ==
    IF load = None /\ critical_count >= k THEN multiplier ELSE load

\* find_collapse_point is called: its locals before the loop
CollapseStart ==
    /\ collapse.pc = "idle"
    /\ collapse' = [pc |-> "loop", i |-> 1, results |-> <<>>,
                    first_issues_load |-> None, constant_delays_load |-> None,
                    full_collapse_load |-> None, base_ships |-> base_config.ships_per_year]
    /\ UNCHANGED <<scenarios, base_config, config, simulation_hours, now, queue, eid, res, storage, metrics,
                   ship, gen, rail, run_state, returned, rng, log, report>>

\* "results.append({...})": the entry of one ladder point
LadderEntry(multiplier, capacity_metrics, critical_count) ==
    [load_multiplier |-> multiplier,
     annual_cargo_tons |-> capacity_metrics.annual_cargo_tons,
     avg_queue |-> capacity_metrics.avg_queue_length,
     max_queue |-> capacity_metrics.max_queue_length,
     avg_wait_time |-> capacity_metrics.avg_wait_time_hours,
     storage_usage |-> capacity_metrics.storage_utilization_pct,
     critical_count |-> critical_count,
     critical_issues |-> capacity_metrics.critical_issues]

\* the locals of find_collapse_point after the body of the loop that follows
\* the run: the report is computed, the thresholds are set, the entry is
\* appended
AfterPoint(c, capacity_metrics) ==
    LET multiplier == LoadMultipliers[c.i]
        critical_count == CriticalCount(capacity_metrics)
    IN [c EXCEPT
          !.pc = "loop",
          !.i = @ + 1,
          !.results = Append(@, LadderEntry(multiplier, capacity_metrics, critical_count)),
          !.first_issues_load = Threshold(@, critical_count, 1, multiplier),
          !.constant_delays_load = Threshold(@, critical_count, 2, multiplier),
          !.full_collapse_load = Threshold(@, critical_count, 3, multiplier)]

\* the head of the loop: the caller's configuration is copied, the load is
\* set, run_simulation builds a new Environment, PortMetrics and Port and
\* enters env.run
LadderRun ==
    /\ collapse.pc = "loop"
    /\ collapse.i <= Len(LoadMultipliers)
    /\ LET multiplier == LoadMultipliers[collapse.i]
           test_config == SetItem(deepcopy(base_config), "ships_per_year",
                                  IntOfProduct(collapse.base_ships, multiplier))
       IN /\ base_config' = test_config.caller
          /\ config' = test_config.copy
    /\ now' = run_simulation(simulation_hours).now
    /\ queue' = run_simulation(simulation_hours).queue
    /\ eid' = run_simulation(simulation_hours).eid
    /\ res' = run_simulation(simulation_hours).res
    /\ storage' = run_simulation(simulation_hours).storage
    /\ metrics' = run_simulation(simulation_hours).metrics
    /\ ship' = run_simulation(simulation_hours).ship
    /\ gen' = run_simulation(simulation_hours).gen
    /\ rail' = run_simulation(simulation_hours).rail
    /\ log' = run_simulation(simulation_hours).log
    /\ run_state' = "running"
    /\ collapse' = [collapse EXCEPT !.pc = "run"]
    /\ UNCHANGED <<report, scenarios, simulation_hours, returned, rng>>

\* run_simulation has returned: the rest of the body of the loop
LadderAnalyze ==
    /\ collapse.pc = "run"
    /\ run_state = "finished"
    /\ collapse' = AfterPoint(collapse,
                              calculate_capacity_metrics(metrics, config, simulation_hours))
    /\ UNCHANGED <<scenarios, base_config, config, simulation_hours, now, queue, eid, res,
                   storage, metrics, ship, gen, rail, run_state, returned, rng, log, report>>

\* the ladder is exhausted: the function returns
CollapseReturn ==
    /\ collapse.pc = "loop"
    /\ collapse.i > Len(LoadMultipliers)
    /\ collapse' = [collapse EXCEPT !.pc = "returned"]
    /\ UNCHANGED <<scenarios, base_config, config, simulation_hours, now, queue, eid, res, storage, metrics,
                   ship, gen, rail, run_state, returned, rng, log, report>>

\* find_collapse_point(config, simulation_hours=320): the horizon of each run
CollapseHours == 320

\* A port with one berth of each kind and one crane, where a grain ship is
\* unloaded in four days and a tanker in thirteen; the grain store holds three
\* grain ships and the oil store one tanker; one train a day takes one ton.
ConfigCollapse ==
    [oil_berths |-> 1, dry_berths |-> 1, cranes |-> 1,
     grain_speed |-> 31, oil_speed |-> 16, general_speed |-> 20,
     grain_storage_capacity |-> 9000, general_storage_capacity |-> 1,
     oil_storage_capacity |-> 5000,
     trains_per_day |-> 1, train_capacity |-> 1, railway_capacity |-> 1,
     ships_per_year |-> 714,
     cargo_distribution |-> [grain |-> 32, oil |-> 35, general |-> 33]]

\* What np.random yields in a run of the ladder, all ships coming at once: one
\* grain ship (no critical value); three grain ships (the average wait is
\* critical); a tanker and three grain ships (the wait, and the stores are full
\* when the tanker leaves); a tanker and as many grain ships as make a run
\* (those, and the queue for the dry berth).
LadderRuns ==
    <<Passes(<<<<"grain", 3000>>>>, CollapseHours),
      Passes([i \in 1..3 |-> <<"grain", 3000>>], CollapseHours),
      Passes(<<<<"oil", 5000>>>> \o [i \in 1..3 |-> <<"grain", 3000>>], CollapseHours),
      Passes(<<<<"oil", 5000>>>> \o [i \in 1..(LadderShips - 1) |-> <<"grain", 3000>>],
             CollapseHours)>>

\* The ladder points at which a segment of the ladder starts: 1.0, 1.1, 1.4,
\* 1.7 and 2.5.
LadderSegments == <<1, 2, 5, 8, 12>>

\* the segment of ladder point i
SegmentOf(i) == Cardinality({k \in 1..Len(LadderSegments) : LadderSegments[k] <= i})

\* which run of LadderRuns the points of each segment of the ladder are
LadderPlans ==
    {<<1, 1, 1, 1, 1>>, <<1, 2, 3, 4, 4>>, <<1, 3, 2, 1, 1>>, <<4, 1, 1, 1, 1>>,
     <<1, 2, 4, 3, 1>>, <<2, 1, 2, 1, 3>>}

\* the runs of the thirteen points of a plan
LadderScripts ==
    {[i \in 1..Len(LoadMultipliers) |-> LadderRuns[plan[SegmentOf(i)]]] : plan \in LadderPlans}

RECURSIVE AllDraws(_)
\* what np.random yields along the runs of a script
AllDraws(script) ==
    IF script = <<>> THEN <<>> ELSE Head(script) \o AllDraws(Tail(script))

\* main before the collapse button is pressed; np.random is in a state that
\* yields the draws of thirteen runs
InitCollapse ==
    /\ config = ConfigCollapse
    /\ simulation_hours = CollapseHours
    /\ metrics = NewMetrics
    /\ now = Zero
    /\ queue = {}
    /\ eid = 0
    /\ res = NewResources
    /\ storage = NewStorage
    /\ ship = <<>>
    /\ gen = [pc |-> "sleep", ship_id |-> 0]
    /\ rail = [pc |-> "interval", amount |-> 0, take |-> 0]
    /\ log = NewLog
    /\ run_state = "idle"
    /\ returned = <<>>
    /\ \E script \in LadderScripts :
          rng = [pos |-> 0, stream |-> AllDraws(script)]
    /\ report = NoReport
    /\ collapse = NoSearch
    /\ scenarios = NoBattery
    /\ base_config = config

NextCollapse ==
    \/ CollapseStart
    \/ LadderRun
    \/ Step
    \/ StopSimulation
    \/ LadderAnalyze
    \/ CollapseReturn

SpecCollapse == InitCollapse /\ [][NextCollapse]_vars

-----------------------------------------------------------------------------
(* run_simulation called with any configuration and horizon *)

\* main calls run_simulation(config, simulation_hours): Environment,
\* PortMetrics and Port are built, the two processes are created, env.run is
\* entered.  Port.__init__ raises for a resource or a store without capacity,
\* env.run for a horizon that is not positive, both before the first event.
RunSimulation ==
    /\ run_state = "idle"
    /\ IF ConstructorRaises(config) \/ HorizonRaises(simulation_hours)
       THEN /\ run_state' = "raised"
            /\ UNCHANGED <<now, queue, eid, res, storage, metrics, ship, gen, rail, log>>
       ELSE /\ now' = run_simulation(simulation_hours).now
            /\ queue' = run_simulation(simulation_hours).queue
            /\ eid' = run_simulation(simulation_hours).eid
            /\ res' = run_simulation(simulation_hours).res
            /\ storage' = run_simulation(simulation_hours).storage
            /\ metrics' = run_simulation(simulation_hours).metrics
            /\ ship' = run_simulation(simulation_hours).ship
            /\ gen' = run_simulation(simulation_hours).gen
            /\ rail' = run_simulation(simulation_hours).rail
            /\ log' = run_simulation(simulation_hours).log
            /\ run_state' = "running"
    /\ UNCHANGED <<report, collapse, scenarios, base_config, config, simulation_hours,
                   returned, rng>>

\* Process._resume catches what the generator raises: the process becomes a
\* failed event, scheduled now with NORMAL priority
Failed(t, proc) == <<Stub(t, NORMAL, "failed", proc, NoTarget)>>

\* the generator raises in its first pass, at "8760 / ships_per_year" or at
\* np.random.choice, before anything is drawn or spawned
GenRaises ==
    /\ run_state = "running"
    /\ queue # {}
    /\ NextEvent.kind = "init"
    /\ NextEvent.proc = GenProc
    /\ GeneratorRaises(config)
    /\ gen' = [gen EXCEPT !.pc = "failed"]
    /\ Advance(Failed(NextEvent.t, GenProc), ship)
    /\ UNCHANGED <<report, collapse, scenarios, base_config, config, simulation_hours,
                   res, storage, metrics, rail, run_state, returned, rng, log>>

\* the rail process raises at "24 / trains_per_day", outside the with-block,
\* or at the get of an amount that is not positive, inside it: the with-block
\* is left and the track released before the exception reaches the process
RailRaises ==
    /\ run_state = "running"
    /\ queue # {}
    /\ NextEvent.proc = RailProc
    /\ \/ /\ NextEvent.kind = "init"
          /\ config.trains_per_day = 0
          /\ Advance(Failed(NextEvent.t, RailProc), ship)
          /\ UNCHANGED res
       \/ /\ NextEvent.kind = "request"
          /\ config.train_capacity <= 0
          /\ res' = [res EXCEPT !["railway"] = Release(@, RailProc)]
          /\ Advance(<<Stub(NextEvent.t, NORMAL, "release", RailProc, "railway")>>
                     \o Failed(NextEvent.t, RailProc), ship)
    /\ rail' = [rail EXCEPT !.pc = "failed"]
    /\ UNCHANGED <<report, collapse, scenarios, base_config, config, simulation_hours,
                   storage, metrics, gen, run_state, returned, rng, log>>

\* a ship raises at "cargo_amount / unloading_speed": the with-blocks are left
\* (crane, then berth) before the exception reaches the process, and nothing
\* is recorded
ShipRaises(s) ==
    /\ run_state = "running"
    /\ queue # {}
    /\ UnloadingRaises(s)
    /\ LET t == NextEvent.t
           held == HeldResources(ship[s].cargo_type)
           heldSet == {held[i] : i \in 1..Len(held)}
       IN /\ res' = [r \in Resources |->
                        IF r \in heldSet THEN Release(res[r], ShipProc(s)) ELSE res[r]]
          /\ Advance([i \in 1..Len(held) |->
                         Stub(t, NORMAL, "release", ShipProc(s), held[i])]
                     \o Failed(t, ShipProc(s)),
                     [ship EXCEPT ![s].pc = "failed",
                                  ![s].berth_wait_time =
                                      IF ship[s].pc = "wait_berth"
                                      THEN FSub(t, ship[s].arrival_time) ELSE @])
    /\ UNCHANGED <<report, collapse, scenarios, base_config, config, simulation_hours,
                   storage, metrics, gen, rail, run_state, returned, rng, log>>

\* the exception of a run leaves the function that called run_simulation:
\* neither find_collapse_point nor run_stress_scenarios handles any
Propagate(caller) == IF caller.pc = "run" THEN [caller EXCEPT !.pc = "raised"] ELSE caller

\* Environment.step pops the event of a failed process: nobody has defused it,
\* the exception leaves env.run and run_simulation, nothing is returned
ProcessRaises ==
    /\ run_state = "running"
    /\ queue # {}
    /\ NextEvent.kind = "failed"
    /\ run_state' = "raised"
    /\ collapse' = Propagate(collapse)
    /\ scenarios' = Propagate(scenarios)
    /\ Advance(<<>>, ship)
    /\ UNCHANGED <<report, base_config, config, simulation_hours,
                   res, storage, metrics, gen, rail, returned, rng, log>>

\* ConfigA with one value that is not positive, or with cargo shares that
\* sum to 0.9
DegenerateConfigs ==
    {[ConfigA EXCEPT !.oil_berths = 0],
     [ConfigA EXCEPT !.dry_berths = 0],
     [ConfigA EXCEPT !.cranes = 0 - 1],
     [ConfigA EXCEPT !.railway_capacity = 0],
     [ConfigA EXCEPT !.grain_storage_capacity = 0],
     [ConfigA EXCEPT !.oil_storage_capacity = 0 - 8000],
     [ConfigA EXCEPT !.train_capacity = 0],
     [ConfigA EXCEPT !.cargo_distribution = [grain |-> 32, oil |-> 35, general |-> 23]],
     [ConfigA EXCEPT !.ships_per_year = 0],
     [ConfigA EXCEPT !.trains_per_day = 0],
     [ConfigA EXCEPT !.general_speed = 0]}

\* main before the run button is pressed, with any of the configurations and
\* a horizon of 0 or of Horizon hours
InitAnyInput ==
    /\ config \in Configurations \cup DegenerateConfigs
    /\ simulation_hours \in {0, Horizon}
    /\ metrics = NewMetrics
    /\ now = Zero
    /\ queue = {}
    /\ eid = 0
    /\ res = NewResources
    /\ storage = NewStorage
    /\ ship = <<>>
    /\ gen = [pc |-> "sleep", ship_id |-> 0]
    /\ rail = [pc |-> "interval", amount |-> 0, take |-> 0]
    /\ log = NewLog
    /\ run_state = "idle"
    /\ returned = <<>>
    /\ rng = NewGenerator
    /\ report = NoReport
    /\ collapse = NoSearch
    /\ scenarios = NoBattery
    /\ base_config = config

NextAnyInput ==
    \/ RunSimulation
    \/ Step
    \/ GenRaises
    \/ RailRaises
    \/ \E s \in Resumed : ShipRaises(s)
    \/ ProcessRaises
    \/ StopSimulation

SpecAnyInput == InitAnyInput /\ [][NextAnyInput]_vars

-----------------------------------------------------------------------------
(* run_stress_scenarios *)

Max(a, b) == IF a >= b THEN a ELSE b

\* a reduced count that is used as it comes out
NoClamp(n) == n

\* "max(1, ...)": a reduced count is at least 1
AtLeastOne(n) == Max(1, n)

\* the keys of the dict returned, in the order of insertion: 'scenario_1',
\* ..., 'scenario_6'
ScenarioKeys == 1..6

\* the 'name' of each entry: 'Увеличение нагрузки на 10%', 'Пиковая нагрузка
\* (зерно+нефть)', 'Авария: выход из строя 2 кранов', 'Работа при 50%
\* доступности', 'Снижение скорости на 30% (погода)', 'Одновременный приход
\* крупных судов'
ScenarioNames ==
    <<"load_plus_10_pct", "peak_grain_and_oil", "two_cranes_down",
      "half_availability", "speed_minus_30_pct", "large_ships_at_once">>

\* the assignments scenario k makes to its copy of the configuration, in the
\* order of the code, each computed from the caller's configuration
ScenarioItems(k, base) ==
    CASE k = 1 -> <<<<"ships_per_year", IntOfProduct(base.ships_per_year, 11)>>>>
      [] k = 2 -> <<<<"cargo_distribution", [grain |-> 50, oil |-> 45, general |-> 5]>>,
                    <<"ships_per_year", IntOfProduct(base.ships_per_year, 13)>>>>
      [] k = 3 -> <<<<"cranes", AtLeastOne(base.cranes - 2)>>>>
      [] k = 4 -> <<<<"cranes", AtLeastOne(base.cranes \div 2)>>,
                    <<"oil_berths", AtLeastOne(base.oil_berths \div 2)>>,
                    <<"dry_berths", AtLeastOne(base.dry_berths \div 2)>>>>
      [] k = 5 -> <<<<"grain_speed", IntOfProduct(base.grain_speed, 7)>>,
                    <<"oil_speed", IntOfProduct(base.oil_speed, 7)>>,
                    <<"general_speed", IntOfProduct(base.general_speed, 7)>>>>
      [] k = 6 -> <<<<"ships_per_year", IntOfProduct(base.ships_per_year, 15)>>>>

RECURSIVE SetItems(_, _)
\* the assignments made one after the other
SetItems(d, items) ==
    IF items = <<>> THEN d
    ELSE SetItems(SetItem(d, items[1][1], items[1][2]), Tail(items))

\* a scenario built on the configuration of the scenario before it
ConfigOnTopOfPrevious(k, base) == SetItems(deepcopy(config), ScenarioItems(k, base))

\* "scenarioK_config = copy.deepcopy(base_config)" and the assignments to it
ScenarioConfig(k, base) == SetItems(deepcopy(base), ScenarioItems(k, base))

\* run_stress_scenarios is called: "scenarios = {}"
StressStart ==
    /\ scenarios.pc = "idle"
    /\ scenarios' = [pc |-> "next", k |-> 1, results |-> <<>>]
    /\ UNCHANGED <<base_config, config, simulation_hours, now, queue, eid, res, storage,
                   metrics, ship, gen, rail, run_state, returned, rng, log, report,
                   collapse>>

\* the head of a scenario: its configuration is built, run_simulation builds
\* a new Environment, PortMetrics and Port and enters env.run; an exception
\* of the constructors or of env.run leaves run_stress_scenarios, which
\* handles none
StressRun ==
    /\ scenarios.pc = "next"
    /\ scenarios.k \in ScenarioKeys
    /\ \E d \in {ScenarioConfig(scenarios.k, base_config)} :
          /\ base_config' = d.caller
          /\ config' = d.copy
          /\ IF ConstructorRaises(d.copy) \/ HorizonRaises(simulation_hours)
             THEN /\ run_state' = "raised"
                  /\ scenarios' = [scenarios EXCEPT !.pc = "raised"]
                  /\ UNCHANGED <<now, queue, eid, res, storage, metrics, ship, gen, rail,
                                 log>>
             ELSE /\ now' = run_simulation(simulation_hours).now
                  /\ queue' = run_simulation(simulation_hours).queue
                  /\ eid' = run_simulation(simulation_hours).eid
                  /\ res' = run_simulation(simulation_hours).res
                  /\ storage' = run_simulation(simulation_hours).storage
                  /\ metrics' = run_simulation(simulation_hours).metrics
                  /\ ship' = run_simulation(simulation_hours).ship
                  /\ gen' = run_simulation(simulation_hours).gen
                  /\ rail' = run_simulation(simulation_hours).rail
                  /\ log' = run_simulation(simulation_hours).log
                  /\ run_state' = "running"
                  /\ scenarios' = [scenarios EXCEPT !.pc = "run"]
    /\ UNCHANGED <<report, collapse, simulation_hours, returned, rng>>

\* run_simulation has returned: the report is computed and stored, with the
\* scenario's name and configuration, under the scenario's key
StressAnalyze ==
    /\ scenarios.pc = "run"
    /\ run_state = "finished"
    /\ scenarios' =
          [scenarios EXCEPT
             !.pc = "next",
             !.k = @ + 1,
             !.results =
                 Append(@, [key |-> scenarios.k,
                            name |-> ScenarioNames[scenarios.k],
                            config |-> config,
                            metrics |-> calculate_capacity_metrics(
                                metrics, config, simulation_hours)])]
    /\ UNCHANGED <<base_config, config, simulation_hours, now, queue, eid, res, storage,
                   metrics, ship, gen, rail, run_state, returned, rng, log, report,
                   collapse>>

\* "return scenarios"
StressReturn ==
    /\ scenarios.pc = "next"
    /\ scenarios.k \notin ScenarioKeys
    /\ scenarios' = [scenarios EXCEPT !.pc = "returned"]
    /\ UNCHANGED <<base_config, config, simulation_hours, now, queue, eid, res, storage,
                   metrics, ship, gen, rail, run_state, returned, rng, log, report,
                   collapse>>

\* The configurations main passes: every count, capacity, speed and rate is
\* positive.  A general-cargo speed of 700 t/h gives 700 * 0.7 =
\* 489.99999999999994; a speed of 1 t/h gives int(0.7) = 0.
StressConfigs ==
    {[ConfigA EXCEPT !.cranes = c, !.oil_berths = o, !.dry_berths = d,
                     !.general_speed = g] :
        c \in {1, 2, 3, 7}, o \in {1, 2, 5}, d \in {1, 3}, g \in {1000, 700, 1}}

\* run_stress_scenarios(config, simulation_hours=8): the horizon of each run
StressHours == 8

\* What np.random yields in each run of the battery: two general-cargo ships
\* of 3000 t at once, the second of which finds the store full; or one grain
\* ship.
StressRuns ==
    {Passes(<<<<"general", 3000>>, <<"general", 3000>>>>, StressHours),
     Passes(<<<<"grain", 3000>>>>, StressHours)}

\* main before the stress button is pressed; np.random is in a state that
\* yields the draws of six runs
InitStress ==
    /\ config \in StressConfigs
    /\ simulation_hours = StressHours
    /\ metrics = NewMetrics
    /\ now = Zero
    /\ queue = {}
    /\ eid = 0
    /\ res = NewResources
    /\ storage = NewStorage
    /\ ship = <<>>
    /\ gen = [pc |-> "sleep", ship_id |-> 0]
    /\ rail = [pc |-> "interval", amount |-> 0, take |-> 0]
    /\ log = NewLog
    /\ run_state = "idle"
    /\ returned = <<>>
    /\ \E run \in StressRuns :
          rng = [pos |-> 0, stream |-> AllDraws([k \in ScenarioKeys |-> run])]
    /\ report = NoReport
    /\ collapse = NoSearch
    /\ scenarios = NoBattery
    /\ base_config = config

NextStress ==
    \/ StressStart
    \/ StressRun
    \/ Step
    \/ \E s \in Resumed : ShipRaises(s)
    \/ ProcessRaises
    \/ StopSimulation
    \/ StressAnalyze
    \/ StressReturn

SpecStress == InitStress /\ [][NextStress]_vars

\* the run of a fleet of grain ships: np.random is in a state that yields a
\* gap of 0 after each ship but the last three
InitFleet ==
    InitRunDrawing(ConfigFleet, FleetHorizon,
                   [i \in 1..(FleetShips - 3) |->
                       [cargo_type |-> "grain", cargo_amount |-> 3000, gap |-> 0]])

SpecFleet == InitFleet /\ [][Next]_vars

\* A dry-cargo port with more cranes than dry berths.
ConfigManyCranes ==
    [ConfigB EXCEPT !.dry_berths = 2, !.cranes = 3]

\* the run of a dry-cargo port with fewer cranes than berths, or more
InitCranes == \E cfg \in {ConfigB, ConfigManyCranes} : InitRun(cfg, Horizon)

SpecCranes == InitCranes /\ [][Next]_vars

\* the run of the port of ConfigA with one, two or five rail tracks
InitTracks ==
    \E tracks \in {1, 2, 5} : InitRun([ConfigA EXCEPT !.railway_capacity = tracks], Horizon)

SpecTracks == InitTracks /\ [][Next]_vars

NextRuns == Step \/ StopSimulation \/ Analyze \/ ClearResults \/ RunAgain

SpecRuns == InitRuns /\ [][NextRuns]_vars

-----------------------------------------------------------------------------
(* Properties *)

Users(r) == {res[r].users[i] : i \in 1..Len(res[r].users)}
Waiters(r) == {res[r].put_queue[i] : i \in 1..Len(res[r].put_queue)}
BlockedDeposits(p) == {storage[p].put_queue[i].proc : i \in 1..Len(storage[p].put_queue)}

\* C1: in every reachable state each storage pool's level is between 0 and
\* its configured capacity, whatever deposits and rail withdrawals interleave.
C1_StorageWithinCapacity ==
    \A p \in Pools :
        /\ 0 <= storage[p].level
        /\ storage[p].level <= StorageCapacity(config, p)

\* C1 witness: a ship's deposit waits because it would overflow a pool that
\* the rail has already drawn from.
C1_Witness ==
    \E p \in Pools :
        /\ storage[p].put_queue # <<>>
        /\ storage[p].level + Head(storage[p].put_queue).amount
               > StorageCapacity(config, p)
        /\ log.railed[p] > 0

\* C2: in every reachable state the holders of the oil berths, of the dry
\* berths and of the cranes are at most as many as configured.
C2_HoldersWithinCapacity ==
    /\ Len(res["oil_berths"].users) <= config.oil_berths
    /\ Len(res["dry_berths"].users) <= config.dry_berths
    /\ Len(res["cranes"].users) <= config.cranes

\* C2 witness: every dry berth is taken, and the berthed ships outnumber the
\* cranes: the cranes are all taken and a berthed ship is queued for one.
C2_Witness ==
    /\ Len(res["dry_berths"].users) = config.dry_berths
    /\ config.dry_berths > config.cranes
    /\ Len(res["cranes"].users) = config.cranes
    /\ res["cranes"].put_queue # <<>>

\* the ships whose process ended: their departure is recorded
Departed == {s \in Ships : ship[s].pc = "done"}

HoldsBerth(s) == ShipProc(s) \in Users(get_berth(ship[s].cargo_type))

HoldsCrane(s) == ShipProc(s) \in Users("cranes")

\* C3: a ship that was granted a berth holds it through the crane wait, the
\* storage wait, the unloading delay and the deposit; it gives the berth up
\* only in the step that records its departure, and every recorded departure
\* is of a ship that was granted a berth and no longer holds it.
C3_BerthHeldUntilDeparture ==
    /\ [](\A s \in Ships :
            /\ ship[s].pc \in {"wait_crane", "poll", "unloading", "putting"}
                  => HoldsBerth(s)
            /\ ship[s].pc = "done" =>
                  /\ ~HoldsBerth(s)
                  /\ \E i \in 1..Len(log.granted[get_berth(ship[s].cargo_type)]) :
                        log.granted[get_berth(ship[s].cargo_type)][i] = ShipProc(s))
    /\ [](metrics.ships_processed = Cardinality(Departed))
    /\ [][\A s \in Ships :
            HoldsBerth(s) /\ ~HoldsBerth(s)' =>
                /\ ship[s].pc = "putting"
                /\ ship'[s].pc = "done"
                /\ metrics'.ships_processed = metrics.ships_processed + 1
                /\ metrics'.cargo_processed
                       = Append(metrics.cargo_processed, ship[s].cargo_amount)]_vars

\* C3 witness: a dry ship has departed after waiting for storage space, and
\* its berth is free again.
C3_Witness ==
    \E s \in Ships :
        /\ ship[s].pc = "done"
        /\ ship[s].polls > 0
        /\ NeedsCrane(ship[s].cargo_type)
        /\ ~HoldsBerth(s)

\* C4: a ship holds a crane only during its unloading delay: no ship holds a
\* crane while it waits for storage headroom or while its deposit is blocked.
C4_CraneOnlyWhileUnloading ==
    \A s \in Ships :
        HoldsCrane(s) =>
            /\ ship[s].pc # "poll"
            /\ ShipProc(s) \notin BlockedDeposits(get_storage(ship[s].cargo_type))

\* the order of ship states with the storage wait before the unloading delay
WaitFirstOrder(cargo_type) ==
    {<<"init", "wait_berth">>,
     <<"wait_berth", IF cargo_type = "oil" THEN "poll" ELSE "wait_crane">>,
     <<"wait_berth", IF cargo_type = "oil" THEN "unloading" ELSE "wait_crane">>,
     <<"wait_crane", "poll">>, <<"wait_crane", "unloading">>,
     <<"poll", "poll">>, <<"poll", "unloading">>,
     <<"unloading", "putting">>,
     <<"putting", "done">>}

\* a ship moved on: its position changed, or it started one more 1-hour wait
Moved(s) == ship'[s].pc # ship[s].pc \/ ship'[s].polls # ship[s].polls

\* C5 (as stated): every ship goes Arrived, QueuedForBerth, Berthed,
\* (QueuedForCrane if not oil), Unloading, AwaitingStorageSpace, Stored,
\* Departed: the unloading delay comes before the storage wait, and the
\* storage wait is followed directly by the deposit.
C5_UnloadingBeforeStorageWait ==
    [][LET UnloadingFirstOrder(cargo_type) ==
               {<<"init", "wait_berth">>,
                <<"wait_berth", IF cargo_type = "oil" THEN "unloading" ELSE "wait_crane">>,
                <<"wait_crane", "unloading">>,
                <<"unloading", "poll">>, <<"unloading", "putting">>,
                <<"poll", "poll">>, <<"poll", "putting">>,
                <<"putting", "done">>}
       IN \A s \in Ships :
             Moved(s) => <<ship[s].pc, ship'[s].pc>>
                            \in UnloadingFirstOrder(ship[s].cargo_type)
      ]_vars

\* C5 (amended): every ship goes Arrived, QueuedForBerth, Berthed,
\* (QueuedForCrane if not oil), AwaitingStorageSpace (zero or more 1-hour
\* waits), Unloading, Stored, Departed: the storage wait comes before the
\* unloading delay, and the unloading delay is followed directly by the
\* deposit.  A new ship starts as Arrived.
C5_StorageWaitBeforeUnloading ==
    [][/\ \A s \in Ships :
            Moved(s) => <<ship[s].pc, ship'[s].pc>> \in WaitFirstOrder(ship[s].cargo_type)
       /\ \A s \in DOMAIN ship' \ Ships : ship'[s].pc = "init"
      ]_vars

\* C5 witness: a tanker and a dry ship have both departed, the dry ship after
\* waiting for storage space.
C5_Witness ==
    \E s, u \in Ships :
        /\ ship[s].pc = "done" /\ ship[s].cargo_type # "oil" /\ ship[s].polls > 0
        /\ ship[u].pc = "done" /\ ship[u].cargo_type = "oil"

IsPrefix(a, b) == Len(a) <= Len(b) /\ a = SubSeq(b, 1, Len(a))

\* C6: in a run without horizon of a configuration with every count,
\* capacity, speed and rate positive, every wait is eventually satisfied, so
\* every arrived ship departs.  In its finite form: no ship waits for what no
\* continuation of the run can bring.  A ship in the storage wait waits for
\* level + cargo_amount <= capacity; the level is never below 0, so the wait
\* can end only if the cargo is within the capacity of the pool.
C6_EveryArrivedShipDeparts ==
    \A s \in Ships :
        ship[s].pc = "poll" =>
            ship[s].cargo_amount
                <= StorageCapacity(config, get_storage(ship[s].cargo_type))

\* C7: for the oil berths, the dry berths and the cranes, grants follow the
\* order of the requests: the ships granted so far are exactly the first
\* requesters, in request order, so no ship is granted before one that asked
\* earlier.
C7_GrantsInRequestOrder ==
    \A r \in LoggedResources : IsPrefix(log.granted[r], log.requested[r])

\* C7 witness: three ships were granted the same berth pool, and one of them
\* arrived when another ship was already queued for it.
C7_Witness ==
    /\ \E r \in {"oil_berths", "dry_berths"} :
          /\ Len(log.granted[r]) >= 3
          /\ ResourceCapacity(config, r) = 1
    /\ \E i \in 1..Len(metrics.ships_in_queue) : metrics.ships_in_queue[i].queue >= 1

\* the routing the specification gives for each cargo type
C8_Routing ==
    [grain |-> [berth |-> "dry_berths", pool |-> "grain_storage", crane |-> TRUE],
     general |-> [berth |-> "dry_berths", pool |-> "general_storage", crane |-> TRUE],
     oil |-> [berth |-> "oil_berths", pool |-> "oil_storage", crane |-> FALSE]]

Requested(r, s) ==
    \E i \in 1..Len(log.requested[r]) : log.requested[r][i] = ShipProc(s)

\* the ships whose deposit has entered a pool
HasDeposited(s) ==
    \/ ship[s].pc = "done"
    \/ /\ ship[s].pc = "putting"
       /\ \A p \in Pools : ShipProc(s) \notin BlockedDeposits(p)

RECURSIVE SumCargo(_)
SumCargo(S) ==
    IF S = {} THEN 0
    ELSE LET s == CHOOSE x \in S : TRUE
         IN ship[s].cargo_amount + SumCargo(S \ {s})

\* C8: routing is fixed by cargo type.  A ship requests only the berth pool
\* of its type, a crane exactly if its cargo is not oil, and what a pool
\* received (its level plus what the rail took from it) is the cargo of the
\* deposited ships of its own type: no deposit reaches another pool.
C8_RoutingByCargoType ==
    /\ \A s \in Ships :
          LET route == C8_Routing[ship[s].cargo_type]
          IN /\ \A r \in {"oil_berths", "dry_berths"} :
                    Requested(r, s) <=> (r = route.berth /\ ship[s].pc # "init")
             /\ Requested("cranes", s) <=>
                    (route.crane /\ ship[s].pc \notin {"init", "wait_berth"})
    /\ \A p \in Pools :
          storage[p].level + log.railed[p]
              = SumCargo({s \in Ships : HasDeposited(s)
                                        /\ C8_Routing[ship[s].cargo_type].pool = p})

\* C8 witness: a grain ship, a general-cargo ship and a tanker have each
\* deposited into a pool.
C8_Witness ==
    \A ct \in CargoTypes : \E s \in Ships : ship[s].cargo_type = ct /\ HasDeposited(s)

CargoDeposited ==
    log.deposited["grain_storage"] + log.deposited["general_storage"]
        + log.deposited["oil_storage"]

CargoRailedOut ==
    log.railed["grain_storage"] + log.railed["general_storage"]
        + log.railed["oil_storage"]

CargoProcessed == SumSeq(metrics.cargo_processed)

\* a checkpoint between simulated instants: every event of the current
\* instant has been processed
Checkpoint ==
    run_state \in {"finished", "reported"} \/ queue = {} \/ FLess(now, NextEvent.t)

\* C9 (as stated): at every checkpoint the cumulative cargo deposited into
\* storage equals the cumulative ship cargo processed minus the cumulative
\* cargo railed out.
C9_DepositedIsProcessedMinusRailed ==
    Checkpoint => CargoDeposited = CargoProcessed - CargoRailedOut

\* C9 (amended): at every checkpoint between simulated instants the cargo
\* held in storage (the sum of the three levels) equals the cumulative ship
\* cargo processed minus the cumulative cargo railed out, and the cumulative
\* cargo deposited equals the cumulative ship cargo processed.
C9_StoredIsProcessedMinusRailed ==
    Checkpoint =>
        /\ TotalLevel(storage) = CargoProcessed - CargoRailedOut
        /\ CargoDeposited = CargoProcessed

\* C9 witness: at a checkpoint, ships have been processed, the rail has taken
\* cargo out and cargo is still in storage.
C9_Witness ==
    /\ Checkpoint
    /\ CargoProcessed > 0
    /\ CargoRailedOut > 0
    /\ TotalLevel(storage) > 0

\* C11: a firing that finds the levels g, n, o with train capacity
\* C takes C from grain only if g >= C, else C from general only if n >= C,
\* else C from oil only if o >= C, else min(C, g+n+o) in total, from grain,
\* then general, then oil, each pool giving what it held up to the amount
\* still missing; no firing takes more than C; in the fallback case a pool is
\* touched only after the firing has taken all that every pool before it held.
C11_WithdrawalByPriority ==
    /\ [](\A i \in 1..Len(log.firings) :
            LET f == log.firings[i]
                C == config.train_capacity
                g == f.levels["grain_storage"]
                n == f.levels["general_storage"]
                o == f.levels["oil_storage"]
                amount == Min(C, g + n + o)
                tg == Min(amount, g)
                tn == Min(amount - tg, n)
                to == Min(amount - tg - tn, o)
                expected ==
                    IF g >= C THEN [grain_storage |-> C, general_storage |-> 0, oil_storage |-> 0]
                    ELSE IF n >= C THEN [grain_storage |-> 0, general_storage |-> C, oil_storage |-> 0]
                    ELSE IF o >= C THEN [grain_storage |-> 0, general_storage |-> 0, oil_storage |-> C]
                    ELSE [grain_storage |-> tg, general_storage |-> tn, oil_storage |-> to]
            IN /\ f.taken["grain_storage"] + f.taken["general_storage"]
                     + f.taken["oil_storage"] <= C
               /\ f.done => f.taken = expected)
    /\ [][LET f == log'.firings[Len(log'.firings)]
               Emptied(p) == f.taken[p] = f.levels[p]
           IN /\ rail'.pc = "fb_general" /\ rail.pc # "fb_general"
                 => Emptied("grain_storage")
              /\ rail'.pc = "fb_oil" /\ rail.pc # "fb_oil"
                 => Emptied("grain_storage") /\ Emptied("general_storage")]_vars

\* C11 witness: one firing took a full train from a single pool, and another
\* finished after it took what two pools held, neither holding a full train.
C11_Witness ==
    \E i, j \in 1..Len(log.firings) :
        LET f == log.firings[i]
            h == log.firings[j]
        IN /\ f.done /\ h.done
           /\ \E p \in Pools : f.levels[p] >= config.train_capacity
           /\ \A p \in Pools : h.levels[p] < config.train_capacity
           /\ Cardinality({p \in Pools : h.taken[p] > 0}) >= 2

\* C12: the dispatcher fires on a fixed period: any two consecutive firings
\* are exactly 24 / trains_per_day hours apart.
C12_FixedFiringPeriod ==
    \A i \in 2..Len(log.firings) :
        FSub(log.firings[i].time, log.firings[i - 1].time) = TrainInterval

\* C13: each departing ship appends exactly one record: wait time = time of
\* its berth grant minus arrival time, processing time = departure time minus
\* arrival time, and its own tonnage; ships_processed is the length of each of
\* the three per-ship lists; a ship that has not departed, at the horizon
\* included, has no record.
C13_OneRecordPerDeparture ==
    /\ [](/\ metrics.ships_processed = Len(metrics.ship_waiting_times)
          /\ metrics.ships_processed = Len(metrics.ship_processing_times)
          /\ metrics.ships_processed = Len(metrics.cargo_processed)
          /\ metrics.ships_processed = Cardinality(Departed))
    /\ [][LET leaving == {s \in Ships : ship[s].pc # "done" /\ ship'[s].pc = "done"}
           IN /\ Cardinality(leaving) <= 1
              /\ \A s \in leaving :
                    /\ metrics'.ship_waiting_times
                          = Append(metrics.ship_waiting_times,
                                   FSub(log.berthed_at[s], ship[s].arrival_time))
                    /\ metrics'.ship_processing_times
                          = Append(metrics.ship_processing_times,
                                   FSub(now', ship[s].arrival_time))
                    /\ metrics'.cargo_processed
                          = Append(metrics.cargo_processed, ship[s].cargo_amount)
              /\ leaving = {} =>
                    /\ metrics'.ship_waiting_times = metrics.ship_waiting_times
                    /\ metrics'.ship_processing_times = metrics.ship_processing_times
                    /\ metrics'.cargo_processed = metrics.cargo_processed]_vars

\* C13 witness: the horizon is reached with a ship recorded that waited for
\* its berth and with another ship still in the port.
C13_Witness ==
    /\ run_state = "finished"
    /\ \E s \in Departed : FLess(ship[s].arrival_time, log.berthed_at[s])
    /\ \E s \in Ships : ship[s].pc \notin {"init", "done"}

\* C14: a utilization snapshot is recorded on exactly every 10th completion:
\* the number of resource-usage samples is floor(ships_processed / 10).
C14_SnapshotEveryTenthCompletion ==
    /\ Len(metrics.berth_usage) = metrics.ships_processed \div SnapshotEvery
    /\ Len(metrics.crane_usage) = metrics.ships_processed \div SnapshotEvery
    /\ Len(metrics.storage_usage) = metrics.ships_processed \div SnapshotEvery

\* C15: within a run every MetricsLog sequence is append-only (a step leaves
\* it as it is or extends it at the end) and the timestamps of the queue-length
\* samples and of the resource-usage samples never decrease along a sequence.
C15_AppendOnlyTimeMonotonic ==
    /\ [][/\ IsPrefix(metrics.ships_in_queue, metrics'.ships_in_queue)
          /\ IsPrefix(metrics.berth_usage, metrics'.berth_usage)
          /\ IsPrefix(metrics.crane_usage, metrics'.crane_usage)
          /\ IsPrefix(metrics.storage_usage, metrics'.storage_usage)
          /\ IsPrefix(metrics.ship_waiting_times, metrics'.ship_waiting_times)
          /\ IsPrefix(metrics.ship_processing_times, metrics'.ship_processing_times)
          /\ IsPrefix(metrics.cargo_processed, metrics'.cargo_processed)
          /\ metrics'.ships_processed >= metrics.ships_processed]_vars
    /\ [](LET Monotonic(samples) ==
                  \A i \in 1..(Len(samples) - 1) :
                      FLeq(samples[i].time, samples[i + 1].time)
          IN /\ Monotonic(metrics.ships_in_queue)
             /\ Monotonic(metrics.berth_usage)
             /\ Monotonic(metrics.crane_usage)
             /\ Monotonic(metrics.storage_usage))

\* C15 witness: two utilization snapshots taken at different times, and queue
\* samples of arrivals at different times.
C15_Witness ==
    /\ Len(metrics.berth_usage) >= 2
    /\ Len(metrics.crane_usage) >= 2
    /\ Len(metrics.storage_usage) >= 2
    /\ FLess(metrics.berth_usage[1].time, metrics.berth_usage[2].time)
    /\ \E i \in 1..(Len(metrics.ships_in_queue) - 1) :
          FLess(metrics.ships_in_queue[i].time, metrics.ships_in_queue[i + 1].time)

\* C16: the reported theoretical maximum capacity is the minimum of the four
\* per-element capacities, the reported bottleneck is an element with that
\* capacity, and among several such elements it is the first in the order
\* berths, cranes, storage, rail.
C16_BottleneckIsFirstMinimum ==
    report.computed =>
        LET cap == report.capacities
            least == report.theoretical_max_capacity_tons
            Position(name) == CHOOSE i \in 1..Len(CapacityNames) : CapacityNames[i] = name
        IN /\ \E i \in 1..Len(CapacityNames) : cap[CapacityNames[i]] = least
           /\ \A i \in 1..Len(CapacityNames) : ~FLess(cap[CapacityNames[i]], least)
           /\ \E i \in 1..Len(CapacityNames) : CapacityNames[i] = report.bottleneck
           /\ cap[report.bottleneck] = least
           /\ \A i \in 1..(Position(report.bottleneck) - 1) :
                 FLess(least, cap[CapacityNames[i]])

\* C16 witness: berths and cranes tie for the minimum, below storage and
\* rail, and the berths are reported.
C16_Witness ==
    /\ report.computed
    /\ report.capacities.berths = report.capacities.cranes
    /\ FGreater(report.capacities.storage, report.capacities.berths)
    /\ FGreater(report.capacities.rail, report.capacities.berths)
    /\ report.bottleneck = "berths"

\* C17: the status is a function of the capacity utilization u: u < 60 is
\* ample reserve, 60 <= u <= 80 is moderate load (u = 60 and u = 80
\* included), u > 80 is at capacity.
C17_StatusBands ==
    report.computed =>
        LET u == report.capacity_utilization_pct
        IN report.system_status =
              IF FGreater(Whole(60), u) THEN "ample"
              ELSE IF ~FGreater(u, Whole(80)) THEN "moderate"
              ELSE "critical"

\* C18: the analyzer returns a report with every field defined for any log
\* and configuration: averages and utilizations over no samples are 0, the
\* berth capacity of a log without completed ships is computed with 24 hours
\* and 5000 t a ship, the capacity utilization is 0 when the bottleneck
\* capacity is 0.
C18_ReportAlwaysDefined ==
    report.computed =>
        /\ \A field \in {"annual_cargo_tons", "avg_wait_time_hours",
                          "avg_processing_time_hours", "berth_utilization_pct",
                          "crane_utilization_pct", "storage_utilization_pct",
                          "avg_queue_length", "theoretical_max_capacity_tons",
                          "capacity_utilization_pct", "reserve_capacity_tons"} :
              IsDefined(report[field])
        /\ \A i \in 1..Len(CapacityNames) : IsDefined(report.capacities[CapacityNames[i]])
        /\ metrics.ship_waiting_times = <<>> => report.avg_wait_time_hours = Zero
        /\ metrics.ship_processing_times = <<>>
              => report.avg_processing_time_hours = Zero
        /\ metrics.ships_in_queue = <<>>
              => report.avg_queue_length = Zero /\ report.max_queue_length = 0
        /\ metrics.berth_usage = <<>> => report.berth_utilization_pct = Zero
        /\ metrics.crane_usage = <<>> => report.crane_utilization_pct = Zero
        /\ metrics.storage_usage = <<>> => report.storage_utilization_pct = Zero
        /\ metrics.ships_processed = 0
              => report.capacities.berths
                    = FMul(FDiv(Whole((config.oil_berths + config.dry_berths) * 8760),
                                Whole(24)),
                           Whole(5000))
        /\ report.theoretical_max_capacity_tons = Zero
              => report.capacity_utilization_pct = Zero

\* C18 witness: a report of a log with no ship, no queue sample and no
\* snapshot, for a port without berths and cranes: the bottleneck capacity
\* is 0.
C18_Witness ==
    /\ report.computed
    /\ metrics = MetricsLogOf([waits |-> <<>>, times |-> <<>>, cargo |-> <<>>], <<>>, <<>>)
    /\ config.cranes = 0
    /\ config.oil_berths + config.dry_berths = 0
    /\ report.theoretical_max_capacity_tons = Zero

\* C19: the critical-issue list has one entry for each of the three tests
\* that holds, each strict and independent of the others: longest queue > 5,
\* average wait > 72 hours, average storage occupancy > 95 %; a value at its
\* threshold adds nothing, and the list is empty iff no test holds.
C19_StrictIndependentIssues ==
    report.computed =>
        LET Listed(issue) ==
                \E i \in 1..Len(report.critical_issues) : report.critical_issues[i] = issue
            holds == [queue |-> report.max_queue_length > 5,
                      wait |-> FGreater(report.avg_wait_time_hours, Whole(72)),
                      storage |-> FGreater(report.storage_utilization_pct, Whole(95))]
        IN /\ \A issue \in {"queue", "wait", "storage"} : Listed(issue) <=> holds[issue]
           /\ Len(report.critical_issues)
                 = Cardinality({issue \in {"queue", "wait", "storage"} : holds[issue]})
           /\ report.critical_issues = <<>>
                 <=> ~holds.queue /\ ~holds.wait /\ ~holds.storage

\* C19 witness: the longest queue is 5, the average wait 72 hours and the
\* average storage occupancy 95 %, and no issue is listed.
C19_Witness ==
    /\ report.computed
    /\ report.max_queue_length = 5
    /\ report.avg_wait_time_hours = Whole(72)
    /\ report.storage_utilization_pct = Whole(95)
    /\ report.critical_issues = <<>>

\* C20: the collapse search runs all 13 ladder points in increasing order of
\* the multiplier and never stops early: the result has one entry per
\* multiplier in ladder order, and first_issues_load, constant_delays_load,
\* full_collapse_load are the smallest ladder multipliers whose critical
\* count is at least 1, 2, 3, or undefined when no point reaches the count.
C20_FullLadderSmallestThresholds ==
    LET results == collapse.results
        Reaching(k) == {i \in 1..Len(results) : results[i].critical_count >= k}
        Smallest(k) ==
            IF Reaching(k) = {} THEN None
            ELSE LoadMultipliers[CHOOSE i \in Reaching(k) : \A j \in Reaching(k) : i <= j]
    IN /\ collapse.pc = "loop" =>
             /\ Len(results) = collapse.i - 1
             /\ Len(results) <= Len(LoadMultipliers)
       /\ collapse.pc \in {"loop", "returned"} =>
             /\ \A i \in 1..Len(results) : results[i].load_multiplier = LoadMultipliers[i]
             /\ \A i \in 2..Len(results) :
                   results[i - 1].load_multiplier < results[i].load_multiplier
             /\ collapse.first_issues_load = Smallest(1)
             /\ collapse.constant_delays_load = Smallest(2)
             /\ collapse.full_collapse_load = Smallest(3)
       /\ collapse.pc = "returned" => Len(results) = Len(LoadMultipliers)

\* C20 witness: the search has returned 13 entries; the three thresholds were
\* reached at three different points, the last of them before the end of the
\* ladder.
C20_Witness ==
    /\ collapse.pc = "returned"
    /\ Len(collapse.results) = 13
    /\ collapse.first_issues_load # None
    /\ collapse.first_issues_load < collapse.constant_delays_load
    /\ collapse.constant_delays_load < collapse.full_collapse_load
    /\ collapse.full_collapse_load < 20

\* C21: in the result of the collapse-point search critical_count is
\* non-decreasing along the ladder: of any two ladder points the one with
\* the larger multiplier has a critical count at least as large.  The port
\* searched has one dry berth and one crane, for which the ships queue.
C21_CriticalCountNonDecreasing ==
    collapse.pc # "idle" =>
        \A i, j \in 1..Len(collapse.results) :
            collapse.results[i].load_multiplier < collapse.results[j].load_multiplier
                => collapse.results[i].critical_count
                      <= collapse.results[j].critical_count

\* C22: for a base configuration with crane and berth counts of at least 1,
\* every configuration the stress battery builds and runs has cranes >= 1,
\* oil_berths >= 1 and dry_berths >= 1: the loss of two cranes leaves
\* cranes - 2 or, if that is below 1, one crane; the 50 % availability
\* leaves half of each count, rounded down, or 1 if that is below 1.
C22_CountsClampedToOne ==
    scenarios.pc # "idle" =>
        /\ config.cranes >= 1 /\ config.oil_berths >= 1 /\ config.dry_berths >= 1
        /\ \A i \in 1..Len(scenarios.results) :
              LET built == scenarios.results[i].config
                  Clamped(n) == IF n < 1 THEN 1 ELSE n
              IN /\ built.cranes >= 1 /\ built.oil_berths >= 1 /\ built.dry_berths >= 1
                 /\ i = 3 => built.cranes = Clamped(base_config.cranes - 2)
                 /\ i = 4 => /\ built.cranes = Clamped(base_config.cranes \div 2)
                             /\ built.oil_berths = Clamped(base_config.oil_berths \div 2)
                             /\ built.dry_berths = Clamped(base_config.dry_berths \div 2)

\* C22 witness: the battery has returned for a port of two cranes, one oil
\* berth and three dry berths: the loss of two cranes would leave none, half
\* of one oil berth is none, and both scenarios ran with one of each.
C22_Witness ==
    /\ scenarios.pc = "returned"
    /\ base_config.cranes = 2 /\ base_config.oil_berths = 1 /\ base_config.dry_berths = 3
    /\ scenarios.results[3].config.cranes = 1
    /\ scenarios.results[4].config.oil_berths = 1
    /\ scenarios.results[4].config.dry_berths = 1

\* C23: when the run or the analysis of one stress scenario (or ladder point)
\* fails, the runner does not abort: the failure stays with that scenario,
\* the remaining ones are executed, and the runner returns its results.  So
\* the battery is never left by an exception, and a battery that has stopped
\* has executed all six scenarios.
C23_FailureIsolated ==
    /\ scenarios.pc # "raised"
    /\ scenarios.pc = "returned" => Len(scenarios.results) = 6

\* C24: a configuration with a resource count or a capacity that is not
\* positive, with cargo shares that do not sum to 1, or a horizon that is not
\* positive is rejected before any simulation step executes: for such an
\* input no ship is spawned, no resource is acquired, no metric is recorded,
\* and the run never returns a result.
C24_InvalidInputRejectedBeforeRun ==
    LET shares == config.cargo_distribution
        invalid ==
            \/ config.oil_berths <= 0 \/ config.dry_berths <= 0 \/ config.cranes <= 0
            \/ config.railway_capacity <= 0
            \/ config.grain_storage_capacity <= 0
            \/ config.general_storage_capacity <= 0
            \/ config.oil_storage_capacity <= 0
            \/ config.train_capacity <= 0
            \/ shares.grain + shares.oil + shares.general # 100
            \/ simulation_hours <= 0
    IN invalid =>
          /\ ship = <<>>
          /\ \A r \in Resources : res[r].users = <<>> /\ res[r].put_queue = <<>>
          /\ metrics = NewMetrics
          /\ run_state # "finished"

\* C25: every run starts from a newly built Port and MetricsLog, however
\* many runs came before: in the step that starts a run the three storage
\* levels become 0, no berth, crane or track is in use, every wait queue is
\* empty, ships_processed is 0 and every sequence of the metrics is empty;
\* the clock, the event heap, the processes, the Port and the MetricsLog of
\* the new run are those of a first run, whatever the run before left.
C25_EveryRunStartsFresh ==
    [][run_state # "running" /\ run_state' = "running" =>
          /\ \A p \in Pools :
                /\ storage'[p].level = 0
                /\ storage'[p].put_queue = <<>>
                /\ storage'[p].get_queue = <<>>
          /\ \A r \in Resources : res'[r].users = <<>> /\ res'[r].put_queue = <<>>
          /\ metrics'.ships_processed = 0
          /\ metrics'.ships_in_queue = <<>>
          /\ metrics'.berth_usage = <<>>
          /\ metrics'.crane_usage = <<>>
          /\ metrics'.storage_usage = <<>>
          /\ metrics'.ship_waiting_times = <<>>
          /\ metrics'.ship_processing_times = <<>>
          /\ metrics'.cargo_processed = <<>>
          /\ now' = Zero
          /\ ship' = <<>>
          /\ gen'.pc = "init" /\ gen'.ship_id = 0
          /\ rail'.pc = "init"
          /\ {e.proc : e \in queue'} = {GenProc, RailProc, EnvProc}]_vars

\* C25 witness: the second run is starting on an empty port with an empty
\* log, after a first run in which two ships were unloaded.
C25_Witness ==
    /\ Len(returned) = 1
    /\ returned[1].ships_processed = 2
    /\ Len(returned[1].ships_in_queue) = 3
    /\ run_state = "running"
    /\ gen.pc = "init"
    /\ metrics.ships_processed = 0
    /\ storage["grain_storage"].level = 0

\* C26: the configuration the caller passes is never modified: no step of
\* the stress battery (or of a run, of the analyzer, of the collapse search)
\* changes any field of it, the nested cargo distribution included, and a
\* scenario changes only its own copy, so that no scenario's configuration
\* carries the change of an earlier scenario.
C26_CallerConfigurationUnchanged ==
    [][/\ base_config' = base_config
       /\ scenarios'.pc # "idle" =>
             \A i \in 1..Len(scenarios'.results) :
                LET built == scenarios'.results[i].config
                IN /\ i \notin {1, 2, 6} => built.ships_per_year = base_config.ships_per_year
                   /\ i # 2 => built.cargo_distribution = base_config.cargo_distribution
                   /\ i \notin {3, 4} => built.cranes = base_config.cranes
                   /\ i # 5 => built.general_speed = base_config.general_speed]_vars

\* C26 witness: the battery has returned; scenario 2 ran with another cargo
\* distribution and more ships than the caller's configuration, scenario 5
\* with a lower speed, and the caller's configuration is one of those main
\* passes.
C26_Witness ==
    /\ scenarios.pc = "returned"
    /\ base_config \in StressConfigs
    /\ scenarios.results[2].config.cargo_distribution # base_config.cargo_distribution
    /\ scenarios.results[2].config.ships_per_year > base_config.ships_per_year
    /\ scenarios.results[5].config.general_speed < base_config.general_speed
    /\ config = scenarios.results[6].config
    /\ config # base_config

\* C27: the stress battery returns exactly six results in a fixed order,
\* scenario_1 to scenario_6, and the configuration of each differs from the
\* base only in its own perturbation: (1) ships_per_year +10 %; (2)
\* ships_per_year +30 % and the distribution grain 0.5, oil 0.45, general
\* 0.05, which sums to 1; (3) cranes less 2; (4) cranes and both berth counts
\* halved; (5) the three speeds less 30 %; (6) ships_per_year +50 %.  A
\* perturbed number is whole: the product less a fraction of at most one, the
\* half rounded down, and a count is at least 1.  Every other field equals
\* the base.
C27_SixScenariosOwnPerturbation ==
    scenarios.pc # "idle" =>
        LET results == scenarios.results
            base == base_config
            Perturbed(i) ==
                CASE i \in {1, 6} -> {"ships_per_year"}
                  [] i = 2 -> {"ships_per_year", "cargo_distribution"}
                  [] i = 3 -> {"cranes"}
                  [] i = 4 -> {"cranes", "oil_berths", "dry_berths"}
                  [] i = 5 -> {"grain_speed", "oil_speed", "general_speed"}
            Scaled(v, n, tenths) == 10 * v <= n * tenths /\ n * tenths <= 10 * (v + 1)
            Floored(n) == IF n < 1 THEN 1 ELSE n
        IN /\ scenarios.pc = "returned" => Len(results) = 6
           /\ Len(results) <= 6
           /\ \A i \in 1..Len(results) :
                 LET built == results[i].config IN
                 /\ results[i].key = i
                 /\ \A f \in DOMAIN base \ Perturbed(i) : built[f] = base[f]
                 /\ i = 1 => Scaled(built.ships_per_year, base.ships_per_year, 11)
                 /\ i = 2 => /\ Scaled(built.ships_per_year, base.ships_per_year, 13)
                             /\ built.cargo_distribution
                                   = [grain |-> 50, oil |-> 45, general |-> 5]
                 /\ i = 3 => built.cranes = Floored(base.cranes - 2)
                 /\ i = 4 => /\ built.cranes = Floored(base.cranes \div 2)
                             /\ built.oil_berths = Floored(base.oil_berths \div 2)
                             /\ built.dry_berths = Floored(base.dry_berths \div 2)
                 /\ i = 5 => /\ Scaled(built.grain_speed, base.grain_speed, 7)
                             /\ Scaled(built.oil_speed, base.oil_speed, 7)
                             /\ Scaled(built.general_speed, base.general_speed, 7)
                 /\ i = 6 => Scaled(built.ships_per_year, base.ships_per_year, 15)

\* C27 witness: the battery has returned its six results for a port of seven
\* cranes, five oil berths, three dry berths and a general-cargo speed of
\* 700 t/h: 785, 928 and 1071 ships, five and three cranes, two and one
\* berths, speeds of 2100, 3500 and 489 t/h.
C27_Witness ==
    /\ scenarios.pc = "returned"
    /\ Len(scenarios.results) = 6
    /\ base_config.cranes = 7 /\ base_config.oil_berths = 5 /\ base_config.dry_berths = 3
    /\ base_config.general_speed = 700
    /\ scenarios.results[1].config.ships_per_year = 785
    /\ scenarios.results[2].config.ships_per_year = 928
    /\ scenarios.results[3].config.cranes = 5
    /\ scenarios.results[4].config.cranes = 3
    /\ scenarios.results[4].config.oil_berths = 2
    /\ scenarios.results[4].config.dry_berths = 1
    /\ scenarios.results[5].config.grain_speed = 2100
    /\ scenarios.results[5].config.oil_speed = 3500
    /\ scenarios.results[5].config.general_speed = 489
    /\ scenarios.results[6].config.ships_per_year = 1071

\* C28: a ship that finds level + cargo_amount > capacity for its pool checks
\* again exactly 1 hour later, and again, and leaves the wait at the first
\* check that finds level + cargo_amount <= capacity.  Between two checks
\* nothing resumes it, a rail withdrawal included: while it waits the ship is
\* moved only by its own timer.  For the whole wait it keeps its berth, and
\* its crane if it is not a tanker.
C28_HourlyPollHoldingBerthAndCrane ==
    /\ [](\A s \in Ships :
            ship[s].pc = "poll" =>
                /\ HoldsBerth(s)
                /\ NeedsCrane(ship[s].cargo_type) => HoldsCrane(s)
                /\ Cardinality({e \in queue : e.proc = ShipProc(s)}) = 1)
    /\ [][\A s \in Ships :
            LET p == get_storage(ship[s].cargo_type)
                headroom == storage[p].level + ship[s].cargo_amount
                                <= StorageCapacity(config, p)
                checks == ship[s].pc \in {"wait_crane", "poll"}
                             \/ (ship[s].pc = "wait_berth" /\ ~NeedsCrane(ship[s].cargo_type))
                Timers(Q) == {e \in Q : e.proc = ShipProc(s)}
            IN /\ ship[s].pc = "poll" /\ ship'[s] = ship[s] => Timers(queue') = Timers(queue)
               /\ ship[s].pc = "poll" /\ ship'[s] # ship[s] =>
                     /\ NextEvent.proc = ShipProc(s)
                     /\ NextEvent.kind = "timeout"
                     /\ now' = NextEvent.t
                     /\ ship'[s].pc = IF headroom THEN "unloading" ELSE "poll"
               /\ checks /\ ship'[s].pc = "poll" /\ ship'[s] # ship[s] =>
                     /\ ~headroom
                     /\ ship'[s].polls = ship[s].polls + 1
                     /\ {[kind |-> e.kind, t |-> e.t] : e \in Timers(queue')}
                            = {[kind |-> "timeout", t |-> FAdd(now', Whole(1))]}
               /\ checks /\ ship'[s].pc = "unloading" => headroom
      ]_vars

\* C28 witness: a dry ship has left the storage wait after three checks that
\* found no room; the rail has drawn from its pool, and the ship, now in its
\* unloading delay, is still at its berth and has its crane.
C28_Witness ==
    \E s \in Ships :
        /\ ship[s].pc = "unloading"
        /\ ship[s].polls >= 3
        /\ NeedsCrane(ship[s].cargo_type)
        /\ log.railed[get_storage(ship[s].cargo_type)] > 0
        /\ HoldsBerth(s) /\ HoldsCrane(s)

\* C29: a ship that has passed the storage-headroom check (level +
\* cargo_amount <= capacity) completes its deposit without further waiting,
\* whatever other ships of its cargo type are berthed at the same time: the
\* deposit issued after the unloading delay never waits for space.
C29_DepositNeverBlocks ==
    \A s \in Ships :
        ship[s].pc = "putting" =>
            ShipProc(s) \notin BlockedDeposits(get_storage(ship[s].cargo_type))

\* C30: in every reachable state the cranes in use are at most as many as the
\* dry berths in use: a crane is requested only by a ship that holds a dry
\* berth, and it is released no later than that berth, so every holder of a
\* crane and every ship queued for one holds a dry berth.
C30_CranesWithinDryBerthsInUse ==
    /\ Len(res["cranes"].users) <= Len(res["dry_berths"].users)
    /\ Users("cranes") \subseteq Users("dry_berths")
    /\ Waiters("cranes") \subseteq Users("dry_berths")
    /\ \A s \in Ships :
          ShipProc(s) \in Users("cranes") \cup Waiters("cranes") =>
              /\ get_berth(ship[s].cargo_type) = "dry_berths"
              /\ ship[s].pc \in {"wait_crane", "poll", "unloading", "putting"}

\* C30 witness: the port has three cranes and two dry berths; a dry ship has
\* left, giving back its crane and its berth; both berths are taken, the two
\* ships at them have a crane each, and the third crane is idle.
C30_Witness ==
    /\ config.cranes = 3
    /\ \E s \in Ships : ship[s].pc = "done" /\ NeedsCrane(ship[s].cargo_type)
    /\ Len(res["dry_berths"].users) = 2
    /\ Len(res["cranes"].users) = 2
    /\ Users("cranes") = Users("dry_berths")
    /\ res["cranes"].put_queue = <<>>

\* the ships whose deposit has entered the pool and whose process has not yet
\* been resumed to record the departure
DepositsInFlight ==
    {s \in Ships : ship[s].pc = "putting"
                      /\ ShipProc(s) \notin BlockedDeposits(get_storage(ship[s].cargo_type))}

\* C31 (as stated): in every reachable state the sum of the three storage
\* levels equals the tonnage deposited by ships so far minus the tonnage
\* withdrawn by rail so far, and the tonnage deposited equals the sum of the
\* cargo recorded for completed ships.
C31_DepositedIsRecordedInEveryState ==
    /\ TotalLevel(storage) = CargoDeposited - CargoRailedOut
    /\ CargoDeposited = CargoProcessed

\* C31 (amended): in every reachable state the sum of the three storage
\* levels equals the tonnage deposited so far minus the tonnage withdrawn by
\* rail so far, and the tonnage deposited equals the cargo recorded for
\* completed ships plus the cargo of the ships whose deposit is in the pool
\* and whose departure is not yet recorded; between simulated instants there
\* is no such ship.
C31_DepositedIsRecordedPlusInFlight ==
    /\ TotalLevel(storage) = CargoDeposited - CargoRailedOut
    /\ CargoDeposited = CargoProcessed + SumCargo(DepositsInFlight)
    /\ Checkpoint => DepositsInFlight = {}

\* C31 witness: a ship's cargo is in its pool and its departure is not yet
\* recorded, after other ships were recorded and the rail has withdrawn cargo.
C31_Witness ==
    /\ DepositsInFlight # {}
    /\ CargoProcessed > 0
    /\ CargoRailedOut > 0
    /\ CargoDeposited > CargoProcessed

\* C32: a rail withdrawal never blocks.  Every amount the dispatcher requests
\* from a pool is at least 1 and at most the level of that pool at the moment
\* of the request, so the pool gives it at once and no get is ever queued,
\* whatever ship deposits are processed at the same instant; and only the
\* dispatcher lowers a level.
C32_WithdrawalNeverBlocks ==
    /\ [](\A p \in Pools : storage[p].get_queue = <<>>)
    /\ [][/\ \A p \in Pools :
              storage'[p].level < storage[p].level =>
                  /\ NextEvent.proc = RailProc
                  /\ rail'.take = storage[p].level
                                     + (log.deposited'[p] - log.deposited[p])
                                     - storage'[p].level
                  /\ log.railed'[p] = log.railed[p] + rail'.take
          /\ rail' # rail /\ rail'.pc \in {"single", "fb_grain", "fb_general", "fb_oil"} =>
                \E p \in Pools :
                    /\ rail'.take >= 1
                    /\ rail'.take <= storage[p].level
                                        + (log.deposited'[p] - log.deposited[p])
                    /\ log.railed'[p] = log.railed[p] + rail'.take
                    /\ storage'[p].level = storage[p].level
                                              + (log.deposited'[p] - log.deposited[p])
                                              - rail'.take
       ]_vars

\* C32 witness: the dispatcher has asked a pool for a full train and got it
\* at once, at an instant at which a ship's deposit has entered a pool and
\* the ship's process is not yet resumed; what the pool holds now is less than
\* a train.
C32_Witness ==
    /\ rail.pc = "single"
    /\ rail.take = config.train_capacity
    /\ DepositsInFlight # {}
    /\ \E p \in Pools : log.railed[p] > 0 /\ storage[p].level < config.train_capacity
    /\ \A p \in Pools : storage[p].get_queue = <<>>

\* C33: at most one rail track is occupied in every reachable state, whatever
\* railway_capacity >= 1 is configured.  The single dispatcher never requests
\* a track while it holds one, so every request finds all tracks free and is
\* granted at once, no firing ever waits for a track, and railway_capacity has
\* no effect on the run: every request and every release of a track does
\* what it would do with one track.
C33_AtMostOneTrackInUse ==
    /\ [](/\ Len(res["railway"].users) <= 1
          /\ res["railway"].put_queue = <<>>
          /\ rail.pc \in {"init", "interval"} <=> res["railway"].users = <<>>)
    /\ [][/\ rail.pc = "interval" /\ rail'.pc = "wait_track" =>
                /\ res["railway"].users = <<>>
                /\ res'["railway"].users = <<RailProc>>
                /\ Request(res["railway"], config.railway_capacity, RailProc)
                       = Request(res["railway"], 1, RailProc)
          /\ res'["railway"] # res["railway"] /\ rail'.pc # "wait_track" =>
                /\ rail.pc = "loading"
                /\ res'["railway"].users = <<>>
          /\ run_state = "running" /\ queue # {} =>
                TriggerPutResource(res["railway"], config.railway_capacity)
                    = TriggerPutResource(res["railway"], 1)
       ]_vars

\* C33 witness: the port has five tracks; the dispatcher is loading its third
\* train and holds one track.
C33_Witness ==
    /\ config.railway_capacity = 5
    /\ Len(log.firings) = 3
    /\ rail.pc = "loading"
    /\ res["railway"].users = <<RailProc>>
    /\ res["railway"].put_queue = <<>>

\* C34: in every result of the collapse-point search the three thresholds are
\* nested.  If full_collapse_load is defined then constant_delays_load is, if
\* constant_delays_load is defined then first_issues_load is, and
\* first_issues_load <= constant_delays_load <= full_collapse_load whenever
\* the compared values are defined; each defined threshold is one of the 13
\* ladder multipliers.
C34_ThresholdsNested ==
    collapse.pc \in {"loop", "returned"} =>
        LET first == collapse.first_issues_load
            constant == collapse.constant_delays_load
            full == collapse.full_collapse_load
            Rungs == {LoadMultipliers[i] : i \in 1..Len(LoadMultipliers)}
        IN /\ Cardinality(Rungs) = 13
           /\ full # None => constant # None
           /\ constant # None => first # None
           /\ constant # None => first <= constant
           /\ full # None => constant <= full /\ first <= full
           /\ \A load \in {first, constant, full} : load # None => load \in Rungs

\* C34 witness: the search has returned; the first point with an issue, at
\* 1.1, had two at once, a later point had one issue only, and no point had
\* three: first_issues_load = constant_delays_load = 1.1 and
\* full_collapse_load is None.
C34_Witness ==
    /\ collapse.pc = "returned"
    /\ collapse.first_issues_load = 11
    /\ collapse.constant_delays_load = 11
    /\ collapse.full_collapse_load = None
    /\ \E i \in 3..Len(collapse.results) : collapse.results[i].critical_count = 1

\* C35: for every base configuration whose unloading speeds and
\* ships_per_year are positive integers, every configuration the stress
\* battery builds keeps grain_speed, oil_speed, general_speed and
\* ships_per_year strictly positive after the truncation of the scaled value,
\* so no scenario's run divides by a zero speed or a zero arrival rate.
C35_DerivedRatesPositive ==
    LET Positive(cfg) ==
            /\ cfg.grain_speed >= 1
            /\ cfg.oil_speed >= 1
            /\ cfg.general_speed >= 1
            /\ cfg.ships_per_year >= 1
    IN Positive(base_config) /\ scenarios.pc # "idle" =>
          /\ Positive(config)
          /\ \A i \in 1..Len(scenarios.results) : Positive(scenarios.results[i].config)

\* C10: two runs of one process with the same configuration (and so the same
\* seed, the code taking none) return the same MetricsLog, from which the
\* CapacityReport is computed.
C10_SameInputsSameMetrics ==
    Len(returned) >= 2 => returned[2] = returned[1]

====
